---- MODULE Spec2Model ----
(***************************************************************************)
(* uCAN rule engine: the rule table (ActionManagerBase), frame matching,   *)
(* action dispatch, the periodic scheduler and the pin allocator           *)
(* (PinManager), modelled from src/src/actions and the SAMD51 backend.     *)
(***************************************************************************)
EXTENDS Integers, Sequences, FiniteSets, TLC

\* ------------------------------------------------------------------ bounds
\* Size of the rule table (MAX_ACTION_RULES is 8/16/32/64 by platform).
MAX_ACTION_RULES == 3
\* Size of the pin usage map (MAX_PINS is 32 in the source).
MAX_PINS == 2
\* Calls the model follows from power-on.
MaxSteps == 5
\* Clock advances the model follows under the scheduler.
MaxAdvances == 3
\* Rules in the table when the scheduler runs.
SchedLen == 2
CAN_RX_BUFFER_SIZE == 2
MaxFrames == 3

\* ------------------------------------------------------------ machine words
U8 == 256
U16 == 65536

RECURSIVE BitAnd(_, _)
BitAnd(a, b) ==
    IF a = 0 \/ b = 0 THEN 0
    ELSE (a % 2) * (b % 2) + 2 * BitAnd(a \div 2, b \div 2)

\* A uint32_t is the pair <<high half, low half>> of 16-bit halves: the
\* model checker's integers end at 2^31 - 1.
W(hi, lo) == <<hi, lo>>
Z32 == W(0, 0)

\* a + b in a uint32_t
AddU32(a, b) ==
    LET lo == a[2] + b[2]
    IN W((a[1] + b[1] + (lo \div U16)) % U16, lo % U16)

\* a - b in a uint32_t (modulo 2^32)
SubU32(a, b) ==
    LET borrow == IF a[2] < b[2] THEN 1 ELSE 0
    IN W((a[1] - b[1] - borrow + 2 * U16) % U16, (a[2] - b[2] + U16) % U16)

\* a >= b, both uint32_t
GeU32(a, b) == a[1] > b[1] \/ (a[1] = b[1] /\ a[2] >= b[2])

\* The same pair with an unbounded high half counts real time without wrapping.
AddWide(a, b) ==
    LET lo == a[2] + b[2]
    IN W(a[1] + b[1] + (lo \div U16), lo % U16)

SubWide(a, b) ==
    LET borrow == IF a[2] < b[2] THEN 1 ELSE 0
    IN W(a[1] - b[1] - borrow, (a[2] - b[2] + U16) % U16)

Slots == 0 .. (MAX_ACTION_RULES - 1)

Zero8 == [i \in 0 .. 7 |-> 0]

\* ---------------------------------------------------------------- the rule
\* memset(&rule, 0, sizeof(rule))
EmptyRule ==
    [id |-> 0, enabled |-> FALSE,
     can_id |-> 0, can_id_mask |-> 0,
     data |-> Zero8, data_mask |-> Zero8, data_length |-> 0,
     action |-> "ACTION_NONE",
     param_source |-> "PARAM_FROM_RULE", param_data_offset |-> 0,
     params |-> [pin |-> 0, duty |-> 0, can_id |-> 0, length |-> 0, interval_ms |-> Z32],
     last_execute_ms |-> Z32, execute_count |-> Z32]

\* ------------------------------------------------------------------- state
VARIABLES
    rules_,          \* ActionManagerBase::rules_
    next_rule_id_,   \* ActionManagerBase::next_rule_id_
    initialized_,    \* ActionManagerBase::initialized_
    flash,           \* the persisted header and rules (SAMD51 QSPI flash)
    now_ms,          \* millis(), a uint32_t
    real_ms,         \* real time since boot, never wrapping (history)
    steps,           \* events counted against the run budget (history)
    stamp,           \* per slot: real time of the last bookkeeping update, or <<-1>> (history)
    issued,          \* ids add_rule has assigned by itself since next_rule_id_ last wrapped (history)
    last,            \* the last call made: its name, arguments, result and trace (history)
    usage_map_,      \* PinManager::usage_map_
    m_in,            \* inputs of the function under test (matcher, dispatcher)
    m_out,           \* its result
    buffer_,         \* ActionDataBuffer::buffer_
    slot_used_,      \* ActionDataBuffer::slot_used_
    rx_queue_,       \* SAMD51CAN::rx_queue_
    rx_message,      \* the local CANMessage of process_can_messages
    loop_pc,         \* where the main loop stands inside loop()
    enqueued,        \* frames the receive callback has pushed, in arrival order (history)
    evaluated        \* frames the main loop has handed to check_and_execute, in order (history)

vars == <<rules_, next_rule_id_, initialized_, flash, now_ms, real_ms, steps, stamp, issued, last,
          usage_map_, m_in, m_out, buffer_, slot_used_,
          rx_queue_, rx_message, loop_pc, enqueued, evaluated>>

storeVars == <<rules_, next_rule_id_, initialized_, flash, stamp, issued>>
clockVars == <<now_ms, real_ms>>
NoStamp == <<-1>>
BUFFER_SIZE == 8
BufferSlots == 0 .. (BUFFER_SIZE - 1)
pinVars == <<usage_map_>>
matchVars == <<m_in, m_out>>
bufferVars == <<buffer_, slot_used_>>
rxVars == <<rx_queue_, rx_message, loop_pc, enqueued, evaluated>>


\* ------------------------------------------------------------- rule store
Min(S) == CHOOSE x \in S : \A y \in S : x <= y
Max(S) == CHOOSE x \in S : \A y \in S : y <= x

\* A slot search that falls back to slot 0 when the table is full
find_empty_slot_or_first(rs) ==
    IF \E i \in Slots : rs[i].id = 0
    THEN Min({i \in Slots : rs[i].id = 0})
    ELSE 0

find_empty_slot(rs) ==
    IF \E i \in Slots : rs[i].id = 0
    THEN Min({i \in Slots : rs[i].id = 0})
    ELSE -1

find_rule_index(rs, rule_id) ==
    IF \E i \in Slots : rs[i].id = rule_id
    THEN Min({i \in Slots : rs[i].id = rule_id})
    ELSE -1

get_rule_count(rs) == Cardinality({i \in Slots : rs[i].id # 0})

\* platform_capabilities of the SAMD51 board: every capability flag the
\* support check consults is set.
is_action_supported(type) ==
    CASE type \in {"ACTION_GPIO_SET", "ACTION_GPIO_CLEAR", "ACTION_GPIO_TOGGLE"} -> TRUE
      [] type \in {"ACTION_CAN_SEND", "ACTION_CAN_SEND_PERIODIC"} -> TRUE
      [] type \in {"ACTION_PWM_SET", "ACTION_PWM_CONFIGURE"} -> TRUE
      [] type \in {"ACTION_NEOPIXEL_COLOR", "ACTION_NEOPIXEL_OFF"} -> TRUE
      [] type \in {"ACTION_I2C_WRITE", "ACTION_I2C_READ_BUFFER"} -> TRUE
      [] type \in {"ACTION_GPIO_READ_BUFFER", "ACTION_ADC_READ_BUFFER"} -> TRUE
      [] type \in {"ACTION_BUFFER_SEND", "ACTION_BUFFER_CLEAR"} -> TRUE
      [] OTHER -> FALSE

\* The header and the first `count` entries of the table, as written by
\* save_rules_to_flash(rules_, active_count); fok is whether the flash
\* device accepted the write.
save_rules_to_flash(fl, rs, count, fok) ==
    IF ~fok THEN fl
    ELSE [valid |-> TRUE, rule_count |-> count,
          rules |-> [k \in 1 .. count |-> rs[k - 1]]]

save_rules_impl(fl, rs, fok) == save_rules_to_flash(fl, rs, get_rule_count(rs), fok)

\* load_rules_from_flash(rules_, MAX_ACTION_RULES): the number of entries read
load_count(fl, fok) ==
    IF ~fok \/ ~fl.valid THEN 0
    ELSE IF fl.rule_count < MAX_ACTION_RULES THEN fl.rule_count ELSE MAX_ACTION_RULES

\* ... and the table after the read: the entries land in slots 0 .. count-1
load_rules_impl(fl, rs, fok) ==
    [i \in Slots |-> IF i < load_count(fl, fok) THEN fl.rules[i + 1] ELSE rs[i]]

\* load_rules(): next_rule_id_ = max_id + 1 in a uint8_t, when anything loaded
next_id_after_load(fl, rs, nid, fok) ==
    IF load_count(fl, fok) > 0
    THEN (Max({load_rules_impl(fl, rs, fok)[i].id : i \in Slots}) + 1) % U8
    ELSE nid

Call(op, arg, ret, trace) == [op |-> op, arg |-> arg, ret |-> ret, trace |-> trace]

\* ActionManagerBase::initialize(can_if)
Initialize(can_if, fok) ==
    /\ IF can_if = "nullptr"
       THEN /\ UNCHANGED storeVars
            /\ last' = Call("initialize", can_if, FALSE, <<>>)
       ELSE /\ initialized_' = TRUE
            /\ rules_' = load_rules_impl(flash, rules_, fok)
            /\ next_rule_id_' = next_id_after_load(flash, rules_, next_rule_id_, fok)
            /\ stamp' = [i \in Slots |-> IF i < load_count(flash, fok) THEN NoStamp ELSE stamp[i]]
            /\ issued' = issued
            /\ flash' = flash
            /\ last' = Call("initialize", can_if, TRUE, <<>>)
    /\ UNCHANGED <<clockVars, pinVars, matchVars, bufferVars, rxVars>>

\* ActionManagerBase::load_rules()
LoadRules(fok) ==
    /\ rules_' = load_rules_impl(flash, rules_, fok)
    /\ next_rule_id_' = next_id_after_load(flash, rules_, next_rule_id_, fok)
    /\ stamp' = [i \in Slots |-> IF i < load_count(flash, fok) THEN NoStamp ELSE stamp[i]]
    /\ issued' = issued
    /\ last' = Call("load_rules", 0, load_count(flash, fok), <<>>)
    /\ UNCHANGED <<initialized_, flash, clockVars, pinVars, matchVars, bufferVars, rxVars>>

\* The id add_rule gives the new rule, and the counter afterwards
assigned_id(rule, nid) == IF rule.id = 0 THEN nid ELSE rule.id

next_id_after_add(rule, nid) ==
    IF rule.id = 0
    THEN (IF (nid + 1) % U8 = 0 THEN 1 ELSE (nid + 1) % U8)
    ELSE nid

\* The ids handed out by the counter since it last wrapped from 255 to 1
issued_after_add(rule, nid, ids) ==
    IF rule.id # 0 THEN ids
    ELSE IF (nid + 1) % U8 = 0 THEN {}
    ELSE ids \cup {nid}

\* ActionManagerBase::add_rule(rule)
AddRule(rule, fok) ==
    /\ IF ~initialized_ \/ ~is_action_supported(rule.action) \/ find_empty_slot(rules_) < 0
       THEN /\ UNCHANGED storeVars
            /\ last' = Call("add_rule", rule, 0, <<>>)
       ELSE LET slot == find_empty_slot(rules_)
                new_rule == [rule EXCEPT !.id = assigned_id(rule, next_rule_id_)]
                rs == [rules_ EXCEPT ![slot] = new_rule]
            IN /\ rules_' = rs
               /\ next_rule_id_' = next_id_after_add(rule, next_rule_id_)
               /\ flash' = save_rules_impl(flash, rs, fok)
               /\ stamp' = [stamp EXCEPT ![slot] = NoStamp]
               /\ issued' = issued_after_add(rule, next_rule_id_, issued)
               /\ initialized_' = initialized_
               /\ last' = Call("add_rule", rule, new_rule.id, <<slot, fok>>)
    /\ UNCHANGED <<clockVars, pinVars, matchVars, bufferVars, rxVars>>

\* The tokens parse_and_add_rule cuts a command into.  The command is given
\* by its colon-separated fields; the loop stops at the end of the string,
\* so an empty last field is no token, and it stops after 16 tokens.
tokenize(fields) ==
    LET cut == IF Len(fields) > 0 /\ fields[Len(fields)] = ""
               THEN SubSeq(fields, 1, Len(fields) - 1) ELSE fields
    IN IF Len(cut) > 16 THEN SubSeq(cut, 1, 16) ELSE cut

\* atoi on the decimal tokens in use; a token that starts with no digit gives 0
atoi(token) ==
    CASE token = "1" -> 1
      [] token = "5" -> 5
      [] token = "13" -> 13
      [] token = "128" -> 128
      [] token = "300" -> 300
      [] OTHER -> 0

\* strtoul(token, nullptr, 16) on the hexadecimal tokens in use
strtoul16(token) ==
    CASE token = "100" -> 256
      [] token = "200" -> 512
      [] token = "7FF" -> 2047
      [] token = "13" -> 19
      [] OTHER -> 0

\* The name of an action in a command, or "" for a name the parser does not know
parsed_action(action_type) ==
    CASE action_type = "GPIO_SET" -> "ACTION_GPIO_SET"
      [] action_type = "GPIO_CLEAR" -> "ACTION_GPIO_CLEAR"
      [] action_type = "GPIO_TOGGLE" -> "ACTION_GPIO_TOGGLE"
      [] action_type = "PWM_SET" -> "ACTION_PWM_SET"
      [] action_type = "NEOPIXEL" -> "ACTION_NEOPIXEL_COLOR"
      [] action_type = "NEOPIXEL_OFF" -> "ACTION_NEOPIXEL_OFF"
      [] action_type = "CAN_SEND" -> "ACTION_CAN_SEND"
      [] action_type = "CAN_SEND_PERIODIC" -> "ACTION_CAN_SEND_PERIODIC"
      [] OTHER -> ""

\* The rule parse_and_add_rule builds from its tokens, and whether it gets
\* as far as add_rule.  The NeoPixel colour fields are not part of the
\* model's rule.
parse_rule(tokens) ==
    IF Len(tokens) < 7 THEN [ok |-> FALSE, rule |-> EmptyRule]
    ELSE IF Len(tokens) < 8 THEN [ok |-> FALSE, rule |-> EmptyRule]
    ELSE IF tokens[8] \notin {"candata", "can", "fixed", "rule"}
    THEN [ok |-> FALSE, rule |-> EmptyRule]
    ELSE IF parsed_action(tokens[7]) = "" THEN [ok |-> FALSE, rule |-> EmptyRule]
    ELSE
      LET source == IF tokens[8] \in {"candata", "can"}
                    THEN "PARAM_FROM_CAN_DATA" ELSE "PARAM_FROM_RULE"
          action == parsed_action(tokens[7])
          count == Len(tokens)
          base == [EmptyRule EXCEPT !.id = atoi(tokens[1]) % U8,
                                    !.enabled = TRUE,
                                    !.can_id = strtoul16(tokens[2]),
                                    !.can_id_mask = IF tokens[3] # "" THEN strtoul16(tokens[3])
                                                    ELSE 0,
                                    !.data_length = atoi(tokens[6]) % U8,
                                    !.action = action,
                                    !.param_source = source,
                                    !.param_data_offset = 0]
          rule ==
            IF action \in {"ACTION_GPIO_SET", "ACTION_GPIO_CLEAR", "ACTION_GPIO_TOGGLE"}
            THEN IF source = "PARAM_FROM_RULE" /\ count > 8
                 THEN [base EXCEPT !.params.pin = atoi(tokens[9]) % U8] ELSE base
            ELSE IF action = "ACTION_PWM_SET"
            THEN IF source = "PARAM_FROM_RULE" /\ count > 9
                 THEN [base EXCEPT !.params.pin = atoi(tokens[9]) % U8,
                                   !.params.duty = atoi(tokens[10]) % U8] ELSE base
            ELSE IF action = "ACTION_CAN_SEND"
            THEN IF count > 9
                 THEN [base EXCEPT !.params.can_id = strtoul16(tokens[9]),
                                   !.params.length = 0] ELSE base
            ELSE IF action = "ACTION_CAN_SEND_PERIODIC"
            THEN IF count > 10
                 THEN [base EXCEPT !.params.can_id = strtoul16(tokens[9]),
                                   !.params.length = 0,
                                   !.params.interval_ms = W(0, atoi(tokens[11]))] ELSE base
            ELSE base
      IN [ok |-> TRUE, rule |-> rule]

\* ActionManagerBase::parse_and_add_rule(command_str), the add_rule it ends
\* with included; the command is given by its colon-separated fields
ParseAndAddRule(fields, fok) ==
    LET parsed == parse_rule(tokenize(fields))
        rule == parsed.rule
    IN
    /\ IF ~initialized_ \/ ~parsed.ok
          \/ ~is_action_supported(rule.action) \/ find_empty_slot(rules_) < 0
       THEN /\ UNCHANGED storeVars
            /\ last' = Call("parse_and_add_rule", fields, 0, <<>>)
       ELSE LET slot == find_empty_slot(rules_)
                new_rule == [rule EXCEPT !.id = assigned_id(rule, next_rule_id_)]
                rs == [rules_ EXCEPT ![slot] = new_rule]
            IN /\ rules_' = rs
               /\ next_rule_id_' = next_id_after_add(rule, next_rule_id_)
               /\ flash' = save_rules_impl(flash, rs, fok)
               /\ stamp' = [stamp EXCEPT ![slot] = NoStamp]
               /\ issued' = issued_after_add(rule, next_rule_id_, issued)
               /\ initialized_' = initialized_
               /\ last' = Call("parse_and_add_rule", fields, new_rule.id, <<slot, fok>>)
    /\ UNCHANGED <<clockVars, pinVars, matchVars, bufferVars, rxVars>>

\* A removal that clears every slot holding the id
RemoveRuleEvery(rule_id, fok) ==
    /\ LET index == find_rule_index(rules_, rule_id)
       IN IF index < 0
          THEN /\ UNCHANGED storeVars
               /\ last' = Call("remove_rule", rule_id, FALSE, <<>>)
          ELSE LET rs == [i \in Slots |-> IF rules_[i].id = rule_id THEN EmptyRule
                                          ELSE rules_[i]]
               IN /\ rules_' = rs
                  /\ flash' = save_rules_impl(flash, rs, fok)
                  /\ stamp' = [stamp EXCEPT ![index] = NoStamp]
                  /\ UNCHANGED <<next_rule_id_, initialized_, issued>>
                  /\ last' = Call("remove_rule", rule_id, TRUE, <<index, fok>>)
    /\ UNCHANGED <<clockVars, pinVars, matchVars, bufferVars, rxVars>>

\* ActionManagerBase::remove_rule(rule_id)
RemoveRule(rule_id, fok) ==
    /\ LET index == find_rule_index(rules_, rule_id)
       IN IF index < 0
          THEN /\ UNCHANGED storeVars
               /\ last' = Call("remove_rule", rule_id, FALSE, <<>>)
          ELSE LET rs == [rules_ EXCEPT ![index] = EmptyRule]
               IN /\ rules_' = rs
                  /\ flash' = save_rules_impl(flash, rs, fok)
                  /\ stamp' = [stamp EXCEPT ![index] = NoStamp]
                  /\ issued' = issued
                  /\ UNCHANGED <<next_rule_id_, initialized_>>
                  /\ last' = Call("remove_rule", rule_id, TRUE, <<index, fok>>)
    /\ UNCHANGED <<clockVars, pinVars, matchVars, bufferVars, rxVars>>

\* snprintf("%d", rule_id) on the ids in use
itoa(n) ==
    CASE n = 1 -> "1"
      [] n = 5 -> "5"
      [] n = 13 -> "13"
      [] OTHER -> "0"

\* handle_action_command on "edit:<id>:<rest>": remove_rule(atoi(id)), and
\* when that found the rule, parse_and_add_rule on the id printed back in
\* front of the rest of the record
HandleEditCommand(id_field, rest, fok) ==
    LET rule_id == atoi(id_field) % U8
        index == find_rule_index(rules_, rule_id)
    IN
    /\ IF index < 0
       THEN /\ UNCHANGED storeVars
            /\ last' = Call("edit", <<id_field>> \o rest, 0, <<"Rule not found">>)
       ELSE LET removed == [rules_ EXCEPT ![index] = EmptyRule]
                erased == save_rules_impl(flash, removed, fok)
                parsed == parse_rule(tokenize(<<itoa(rule_id)>> \o rest))
                rule == parsed.rule
            IN IF ~initialized_ \/ ~parsed.ok
                  \/ ~is_action_supported(rule.action) \/ find_empty_slot(removed) < 0
               THEN /\ rules_' = removed
                    /\ flash' = erased
                    /\ stamp' = [stamp EXCEPT ![index] = NoStamp]
                    /\ issued' = issued
                    /\ UNCHANGED <<next_rule_id_, initialized_>>
                    /\ last' = Call("edit", <<id_field>> \o rest, 0, <<"Failed to update rule">>)
               ELSE LET slot == find_empty_slot(removed)
                        new_rule == [rule EXCEPT !.id = assigned_id(rule, next_rule_id_)]
                        rs == [removed EXCEPT ![slot] = new_rule]
                    IN /\ rules_' = rs
                       /\ next_rule_id_' = next_id_after_add(rule, next_rule_id_)
                       /\ flash' = save_rules_impl(erased, rs, fok)
                       /\ stamp' = [[stamp EXCEPT ![index] = NoStamp] EXCEPT ![slot] = NoStamp]
                       /\ issued' = issued_after_add(rule, next_rule_id_, issued)
                       /\ initialized_' = initialized_
                       /\ last' = Call("edit", <<id_field>> \o rest, new_rule.id, <<"Rule updated">>)
    /\ UNCHANGED <<clockVars, pinVars, matchVars, bufferVars, rxVars>>

\* ActionManagerBase::set_rule_enabled(rule_id, enabled)
SetRuleEnabled(rule_id, enabled, fok) ==
    /\ LET index == find_rule_index(rules_, rule_id)
       IN IF index < 0
          THEN /\ UNCHANGED storeVars
               /\ last' = Call("set_rule_enabled", <<rule_id, enabled>>, FALSE, <<>>)
          ELSE LET rs == [rules_ EXCEPT ![index].enabled = enabled]
               IN /\ rules_' = rs
                  /\ flash' = save_rules_impl(flash, rs, fok)
                  /\ UNCHANGED <<next_rule_id_, initialized_, stamp, issued>>
                  /\ last' = Call("set_rule_enabled", <<rule_id, enabled>>, TRUE, <<index, fok>>)
    /\ UNCHANGED <<clockVars, pinVars, matchVars, bufferVars, rxVars>>

\* ActionManagerBase::get_rule(rule_id): the slot the returned pointer
\* refers to (&rules_[index]), or nullptr
nullptr == -1

get_rule(rs, rule_id) ==
    IF find_rule_index(rs, rule_id) < 0 THEN nullptr ELSE find_rule_index(rs, rule_id)

GetRule(rule_id) ==
    /\ last' = Call("get_rule", rule_id, get_rule(rules_, rule_id),
                    IF get_rule(rules_, rule_id) = nullptr THEN <<>>
                    ELSE <<rules_[get_rule(rules_, rule_id)]>>)
    /\ UNCHANGED <<storeVars, clockVars, pinVars, matchVars, bufferVars, rxVars>>

\* ActionManagerBase::clear_all_rules()
ClearAllRules ==
    /\ rules_' = [i \in Slots |-> EmptyRule]
    /\ next_rule_id_' = 1
    /\ stamp' = [i \in Slots |-> NoStamp]
    /\ issued' = issued
    /\ last' = Call("clear_all_rules", 0, 0, <<>>)
    /\ UNCHANGED <<initialized_, flash, clockVars, pinVars, matchVars, bufferVars, rxVars>>


\* ---------------------------------------------------------- rule matching
\* A matcher that compares payload bytes without applying data_mask
matches_rule_unmasked(message, rule) ==
    IF BitAnd(message.id, rule.can_id_mask) # BitAnd(rule.can_id, rule.can_id_mask)
    THEN FALSE
    ELSE IF rule.data_length > 0
         THEN IF message.length < rule.data_length
              THEN FALSE
              ELSE \A i \in 0 .. (rule.data_length - 1) : message.data[i] = rule.data[i]
         ELSE TRUE

\* ActionManagerBase::matches_rule(message, rule)
matches_rule(message, rule) ==
    IF BitAnd(message.id, rule.can_id_mask) # BitAnd(rule.can_id, rule.can_id_mask)
    THEN FALSE
    ELSE IF rule.data_length > 0
         THEN IF message.length < rule.data_length
              THEN FALSE
              ELSE \A i \in 0 .. (rule.data_length - 1) :
                      BitAnd(message.data[i], rule.data_mask[i])
                          = BitAnd(rule.data[i], rule.data_mask[i])
         ELSE TRUE

\* ------------------------------------------------------ parameter resolver
Pow2(n) == IF n = 0 THEN 1 ELSE IF n = 1 THEN 2 ELSE IF n = 2 THEN 4
           ELSE IF n = 3 THEN 8 ELSE IF n = 4 THEN 16 ELSE IF n = 5 THEN 32
           ELSE IF n = 6 THEN 64 ELSE IF n = 7 THEN 128 ELSE 256

Mapping(idx, off, len, lo, hi) ==
    [data_byte_index |-> idx, bit_offset |-> off, bit_length |-> len,
     min_value |-> lo, max_value |-> hi]

\* The byte can_data[i] of the view message.data + param_data_offset; past
\* the end of the 8-byte payload the read is out of bounds and yields oob.
can_data_byte(message, offset, i, oob) ==
    IF offset + i <= 7 THEN message.data[offset + i] ELSE oob

\* extract_uint8(can_data, mapping)
extract_uint8(message, offset, mapping, oob) ==
    IF mapping.data_byte_index > 7 THEN 0
    ELSE LET raw == can_data_byte(message, offset, mapping.data_byte_index, oob)
             bits == IF mapping.bit_length < 8
                     THEN BitAnd((raw \div Pow2(mapping.bit_offset)) % U8,
                                 Pow2(mapping.bit_length) - 1)
                     ELSE raw
             low == IF bits < mapping.min_value THEN mapping.min_value % U8 ELSE bits
         IN IF low > mapping.max_value THEN mapping.max_value % U8 ELSE low

\* (int8_t)x and (int16_t)x for a number x >= 0
ToInt8(x) == IF x % U8 >= 128 THEN (x % U8) - U8 ELSE x % U8
ToInt16(x) == IF x % U16 >= 32768 THEN (x % U16) - U16 ELSE x % U16

\* The extractors below take the payload itself as can_data (bytes 0..7).
\* min_value and max_value are uint32_t: plain numbers in extract_uint8 and
\* extract_uint16, whose limits stay far below 2^31, and pairs of halves in
\* the signed and the 32-bit extractors.

\* An extract_uint16 that clamps the zero it returns for an index out of bounds
extract_uint16_clamp_zero(can_data, mapping) ==
    LET value == IF mapping.data_byte_index > 6 THEN 0
                 ELSE can_data[mapping.data_byte_index]
                      + can_data[mapping.data_byte_index + 1] * U8
        low == IF value < mapping.min_value THEN mapping.min_value % U16 ELSE value
    IN IF low > mapping.max_value THEN mapping.max_value % U16 ELSE low

\* An extract_uint16 that takes the high byte first
extract_uint16_big_endian(can_data, mapping) ==
    IF mapping.data_byte_index > 6 THEN 0
    ELSE LET value == can_data[mapping.data_byte_index] * U8
                      + can_data[mapping.data_byte_index + 1]
             low == IF value < mapping.min_value THEN mapping.min_value % U16 ELSE value
         IN IF low > mapping.max_value THEN mapping.max_value % U16 ELSE low

\* extract_uint16(can_data, mapping)
extract_uint16(can_data, mapping) ==
    IF mapping.data_byte_index > 6 THEN 0
    ELSE LET value == can_data[mapping.data_byte_index]
                      + can_data[mapping.data_byte_index + 1] * U8
             low == IF value < mapping.min_value THEN mapping.min_value % U16 ELSE value
         IN IF low > mapping.max_value THEN mapping.max_value % U16 ELSE low

\* extract_int8(can_data, mapping): bit_offset and bit_length are not read
extract_int8(can_data, mapping) ==
    IF mapping.data_byte_index > 7 THEN 0
    ELSE LET value == ToInt8(can_data[mapping.data_byte_index])
             min == ToInt8(mapping.min_value[2])
             max == ToInt8(mapping.max_value[2])
             low == IF value < min THEN min ELSE value
         IN IF low > max THEN max ELSE low

\* extract_int16(can_data, mapping)
extract_int16(can_data, mapping) ==
    IF mapping.data_byte_index > 6 THEN 0
    ELSE LET value == ToInt16(can_data[mapping.data_byte_index]
                              + can_data[mapping.data_byte_index + 1] * U8)
             min == ToInt16(mapping.min_value[2])
             max == ToInt16(mapping.max_value[2])
             low == IF value < min THEN min ELSE value
         IN IF low > max THEN max ELSE low

\* The uint32_t that four payload bytes from index i on are or-ed into
assemble_uint32(can_data, i) ==
    W(can_data[i + 2] + can_data[i + 3] * U8, can_data[i] + can_data[i + 1] * U8)

\* extract_uint32(can_data, mapping)
extract_uint32(can_data, mapping) ==
    IF mapping.data_byte_index > 4 THEN Z32
    ELSE LET value == assemble_uint32(can_data, mapping.data_byte_index)
             low == IF ~GeU32(value, mapping.min_value) THEN mapping.min_value ELSE value
         IN IF ~GeU32(mapping.max_value, low) THEN mapping.max_value ELSE low

\* extract_float(can_data, mapping): the float is given by its 32 bits, 0.0f
\* by 32 zero bits
extract_float(can_data, mapping) ==
    IF mapping.data_byte_index > 4 THEN Z32
    ELSE assemble_uint32(can_data, mapping.data_byte_index)

\* extract_bool(can_data, mapping); the mask 1 << bit_offset is cut to a
\* uint8_t and is 0 for an offset of 8 and more
extract_bool(can_data, mapping) ==
    IF mapping.data_byte_index > 7 THEN FALSE
    ELSE BitAnd(can_data[mapping.data_byte_index], Pow2(mapping.bit_offset) % U8) # 0

\* A mapping whose limits are pairs, with the limits as plain numbers
\* (for limits below 2^31)
AsNumbers(mapping) ==
    [mapping EXCEPT !.min_value = @[1] * U16 + @[2], !.max_value = @[1] * U16 + @[2]]

\* The extractor for a parameter of the given type applied to a payload;
\* the mapping's limits are pairs
extract(type, can_data, mapping) ==
    IF type = "PARAM_UINT8"
    THEN extract_uint8([data |-> can_data], 0, AsNumbers(mapping), 0)
    ELSE IF type = "PARAM_UINT16" THEN extract_uint16(can_data, AsNumbers(mapping))
    ELSE IF type = "PARAM_UINT32" THEN extract_uint32(can_data, mapping)
    ELSE IF type = "PARAM_INT8" THEN extract_int8(can_data, mapping)
    ELSE IF type = "PARAM_INT16" THEN extract_int16(can_data, mapping)
    ELSE IF type = "PARAM_FLOAT" THEN extract_float(can_data, mapping)
    ELSE extract_bool(can_data, mapping)

\* An ActionDefinition: the kind, param_count and param_map; NoDefinition
\* stands for the nullptr get_action_definition returns for a kind that is
\* not in the table.
ActionDefinition(action, param_map) ==
    [action |-> action, param_count |-> Len(param_map), param_map |-> param_map]

NoDefinition == [action |-> "nullptr", param_count |-> 0, param_map |-> <<>>]

\* SAMD51_ACTION_DEFS
SAMD51_ACTION_DEFS ==
    LET byte(i) == Mapping(i, 0, 8, 0, 255)
    IN {ActionDefinition("ACTION_GPIO_SET", <<byte(0)>>),
        ActionDefinition("ACTION_GPIO_CLEAR", <<byte(0)>>),
        ActionDefinition("ACTION_GPIO_TOGGLE", <<byte(0)>>),
        ActionDefinition("ACTION_PWM_SET", <<byte(0), byte(1)>>),
        ActionDefinition("ACTION_NEOPIXEL_COLOR", <<byte(0), byte(1), byte(2), byte(3)>>),
        ActionDefinition("ACTION_CAN_SEND", <<byte(0)>>),
        ActionDefinition("ACTION_CAN_SEND_PERIODIC", <<byte(0), byte(1)>>),
        ActionDefinition("ACTION_PWM_CONFIGURE",
            <<byte(0), Mapping(1, 0, 16, 1, 100000), Mapping(3, 0, 8, 0, 100),
              Mapping(4, 0, 8, 8, 16)>>),
        ActionDefinition("ACTION_I2C_WRITE",
            <<byte(0), byte(1), Mapping(2, 0, 7, 0, 127), byte(3), byte(4)>>),
        ActionDefinition("ACTION_I2C_READ_BUFFER",
            <<byte(0), byte(1), Mapping(2, 0, 7, 0, 127), byte(3), Mapping(4, 0, 8, 1, 8),
              Mapping(5, 0, 8, 0, 7)>>),
        ActionDefinition("ACTION_GPIO_READ_BUFFER", <<byte(0), Mapping(1, 0, 8, 0, 7)>>),
        ActionDefinition("ACTION_ADC_READ_BUFFER", <<byte(0), Mapping(1, 0, 8, 0, 6)>>),
        ActionDefinition("ACTION_BUFFER_SEND",
            <<Mapping(0, 0, 32, 0, 2047), Mapping(4, 0, 8, 1, 8), Mapping(5, 0, 1, 0, 1)>>),
        ActionDefinition("ACTION_BUFFER_CLEAR", <<>>)}

\* get_action_definition(action) on SAMD51
get_action_definition(action) ==
    IF \E def \in SAMD51_ACTION_DEFS : def.action = action
    THEN CHOOSE def \in SAMD51_ACTION_DEFS : def.action = action
    ELSE NoDefinition

\* --------------------------------------------------------------- dispatch
\* platform_capabilities.gpio_count on SAMD51
gpio_count == 21

\* SAMD51ActionManager::execute_gpio_action / execute_pwm_action: the pin check
execute_gpio_action(type, pin) == pin < gpio_count

execute_pwm_action(pin, duty) == pin < gpio_count

\* ActionManagerBase::execute_can_send_action: sent is what the CAN
\* interface answers (not ready, or send_message failed, give FALSE)
execute_can_send_action(can_id, length, sent) == sent

NoCall == [call |-> <<"none">>, ok |-> FALSE]

\* ActionManagerBase::execute_action(rule, message): the capability call made
\* and the value returned
execute_action(rule, message, sent, oob) ==
    LET use_can_data == (rule.param_source = "PARAM_FROM_CAN_DATA")
        def == get_action_definition(rule.action)
        x(k) == extract_uint8(message, rule.param_data_offset, def.param_map[k], oob)
    IN CASE rule.action \in {"ACTION_GPIO_SET", "ACTION_GPIO_CLEAR", "ACTION_GPIO_TOGGLE"} ->
                IF use_can_data /\ ~(def # NoDefinition /\ def.param_count >= 1) THEN NoCall
                ELSE LET pin == IF use_can_data THEN x(1) ELSE rule.params.pin
                     IN [call |-> <<"gpio", rule.action, pin>>,
                         ok |-> execute_gpio_action(rule.action, pin)]
         [] rule.action = "ACTION_PWM_SET" ->
                IF use_can_data /\ ~(def # NoDefinition /\ def.param_count >= 2) THEN NoCall
                ELSE LET pin == IF use_can_data THEN x(1) ELSE rule.params.pin
                         duty == IF use_can_data THEN x(2) ELSE rule.params.duty
                     IN [call |-> <<"pwm", pin, duty>>,
                         ok |-> execute_pwm_action(pin, duty)]
         [] rule.action = "ACTION_NEOPIXEL_COLOR" ->
                IF use_can_data /\ ~(def # NoDefinition /\ def.param_count >= 4) THEN NoCall
                ELSE [call |-> <<"neopixel">>, ok |-> TRUE]
         [] rule.action = "ACTION_NEOPIXEL_OFF" ->
                [call |-> <<"neopixel">>, ok |-> TRUE]
         [] rule.action \in {"ACTION_CAN_SEND", "ACTION_CAN_SEND_PERIODIC"} ->
                [call |-> <<"can_send", rule.params.can_id, rule.params.length>>,
                 ok |-> execute_can_send_action(rule.params.can_id, rule.params.length, sent)]
         [] OTHER -> NoCall

\* The indices of message.data that execute_action reads for the rule: one
\* per parameter extract_uint8 resolves from the frame, at data_byte_index
\* behind param_data_offset
payload_reads(rule) ==
    LET def == get_action_definition(rule.action)
        n == CASE rule.action \in {"ACTION_GPIO_SET", "ACTION_GPIO_CLEAR", "ACTION_GPIO_TOGGLE"} -> 1
               [] rule.action = "ACTION_PWM_SET" -> 2
               [] rule.action = "ACTION_NEOPIXEL_COLOR" -> 4
               [] OTHER -> 0
    IN IF rule.param_source # "PARAM_FROM_CAN_DATA" \/ n = 0 THEN {}
       ELSE IF def = NoDefinition \/ def.param_count < n THEN {}
       ELSE {rule.param_data_offset + def.param_map[k].data_byte_index :
                k \in {j \in 1 .. n : def.param_map[j].data_byte_index <= 7}}

\* A dispatch test that forgets the enabled flag
dispatches_ignore_enabled(rs, i, message) ==
    rs[i].id # 0 /\ matches_rule(message, rs[i])

\* The slots check_and_execute dispatches for this frame
dispatches(rs, i, message) ==
    rs[i].id # 0 /\ rs[i].enabled /\ matches_rule(message, rs[i])

\* A loop that gives up on the frame at the first failed dispatch
RECURSIVE check_loop_abort(_, _, _, _, _)
check_loop_abort(rs, i, message, sent, oob) ==
    IF i >= MAX_ACTION_RULES THEN <<>>
    ELSE IF rs[i].id # 0 /\ rs[i].enabled /\ matches_rule(message, rs[i])
         THEN LET e == [slot |-> i] @@ execute_action(rs[i], message, sent[i], oob)
              IN IF e.ok THEN <<e>> \o check_loop_abort(rs, i + 1, message, sent, oob)
                 ELSE <<e>>
         ELSE check_loop_abort(rs, i + 1, message, sent, oob)

\* The loop of check_and_execute from slot i on: one entry per dispatch
RECURSIVE check_loop(_, _, _, _, _)
check_loop(rs, i, message, sent, oob) ==
    IF i >= MAX_ACTION_RULES THEN <<>>
    ELSE IF dispatches(rs, i, message)
         THEN <<[slot |-> i] @@ execute_action(rs[i], message, sent[i], oob)>>
                  \o check_loop(rs, i + 1, message, sent, oob)
         ELSE check_loop(rs, i + 1, message, sent, oob)

Successes(trace) == Cardinality({k \in 1 .. Len(trace) : trace[k].ok})

\* ActionManagerBase::check_and_execute(message)
CheckAndExecute(message, sent, oob) ==
    /\ IF ~initialized_
       THEN last' = Call("check_and_execute", message, 0, <<>>)
       ELSE LET trace == check_loop(rules_, 0, message, sent, oob)
            IN last' = Call("check_and_execute", message, Successes(trace), trace)
    /\ UNCHANGED <<storeVars, clockVars, pinVars, matchVars, bufferVars>>

\* -------------------------------------------------------------- scheduler
\* The due test of update_periodic for one slot at current_ms
\* A due test with > in place of >=
periodic_due_strict(rule, current_ms) ==
    /\ rule.id # 0
    /\ rule.enabled
    /\ rule.action = "ACTION_CAN_SEND_PERIODIC"
    /\ rule.params.interval_ms # Z32
    /\ SubU32(current_ms, rule.last_execute_ms) # rule.params.interval_ms
    /\ GeU32(SubU32(current_ms, rule.last_execute_ms), rule.params.interval_ms)

\* A due test without the interval_ms == 0 skip
periodic_due_any_interval(rule, current_ms) ==
    /\ rule.id # 0
    /\ rule.enabled
    /\ rule.action = "ACTION_CAN_SEND_PERIODIC"
    /\ GeU32(SubU32(current_ms, rule.last_execute_ms), rule.params.interval_ms)

\* A due test that compares current_ms with last_execute_ms + interval_ms
\* without reducing modulo 2^32
periodic_due_unwrapped(rule, current_ms) ==
    /\ rule.id # 0
    /\ rule.enabled
    /\ rule.action = "ACTION_CAN_SEND_PERIODIC"
    /\ rule.params.interval_ms # Z32
    /\ GeU32(current_ms, AddWide(rule.last_execute_ms, rule.params.interval_ms))

periodic_due(rule, current_ms) ==
    /\ rule.id # 0
    /\ rule.enabled
    /\ rule.action = "ACTION_CAN_SEND_PERIODIC"
    /\ rule.params.interval_ms # Z32
    /\ GeU32(SubU32(current_ms, rule.last_execute_ms), rule.params.interval_ms)

\* The bookkeeping of a dispatch that sent
periodic_update(rule, current_ms) ==
    [rule EXCEPT !.last_execute_ms = current_ms,
                 !.execute_count = AddU32(rule.execute_count, W(0, 1))]

RECURSIVE periodic_loop(_, _, _, _)
periodic_loop(rs, i, current_ms, sent) ==
    IF i >= MAX_ACTION_RULES THEN <<>>
    ELSE IF periodic_due(rs[i], current_ms)
         THEN <<[slot |-> i,
                 call |-> <<"can_send", rs[i].params.can_id, rs[i].params.length>>,
                 ok |-> execute_can_send_action(rs[i].params.can_id,
                                                rs[i].params.length, sent[i])]>>
                  \o periodic_loop(rs, i + 1, current_ms, sent)
         ELSE periodic_loop(rs, i + 1, current_ms, sent)

\* An update_periodic that books every dispatch it attempts, sent or not
UpdatePeriodicBooksAttempts(sent) ==
    /\ IF ~initialized_
       THEN /\ last' = Call("update_periodic", now_ms, 0, <<>>)
            /\ UNCHANGED storeVars
       ELSE LET trace == periodic_loop(rules_, 0, now_ms, sent)
                done == {trace[k].slot : k \in 1 .. Len(trace)}
            IN /\ rules_' = [i \in Slots |->
                                IF i \in done THEN periodic_update(rules_[i], now_ms)
                                ELSE rules_[i]]
               /\ stamp' = [i \in Slots |-> IF i \in done THEN real_ms ELSE stamp[i]]
               /\ issued' = issued
               /\ last' = Call("update_periodic", now_ms, Cardinality(done), trace)
               /\ UNCHANGED <<next_rule_id_, initialized_, flash>>
    /\ UNCHANGED <<clockVars, pinVars, matchVars, bufferVars>>

\* ActionManagerBase::update_periodic()
UpdatePeriodic(sent) ==
    /\ IF ~initialized_
       THEN /\ last' = Call("update_periodic", now_ms, 0, <<>>)
            /\ UNCHANGED storeVars
       ELSE LET trace == periodic_loop(rules_, 0, now_ms, sent)
                done == {trace[k].slot : k \in {j \in 1 .. Len(trace) : trace[j].ok}}
            IN /\ rules_' = [i \in Slots |->
                                IF i \in done THEN periodic_update(rules_[i], now_ms)
                                ELSE rules_[i]]
               /\ stamp' = [i \in Slots |-> IF i \in done THEN real_ms ELSE stamp[i]]
               /\ issued' = issued
               /\ last' = Call("update_periodic", now_ms, Cardinality(done), trace)
               /\ UNCHANGED <<next_rule_id_, initialized_, flash>>
    /\ UNCHANGED <<clockVars, pinVars, matchVars, bufferVars>>

\* millis() moves on by d milliseconds
AdvanceClock(d) ==
    /\ now_ms' = AddU32(now_ms, d)
    /\ real_ms' = AddWide(real_ms, d)
    /\ last' = Call("millis", d, 0, <<>>)
    /\ UNCHANGED <<storeVars, pinVars, matchVars, bufferVars, rxVars>>

\* ------------------------------------------------------------ pin manager
PinModes ==
    {"PINMODE_UNUSED", "PINMODE_GPIO_INPUT", "PINMODE_GPIO_OUTPUT", "PINMODE_PWM",
     "PINMODE_ADC", "PINMODE_DAC", "PINMODE_I2C_SDA", "PINMODE_I2C_SCL",
     "PINMODE_SPI_MOSI", "PINMODE_SPI_MISO", "PINMODE_SPI_SCK", "PINMODE_SPI_CS",
     "PINMODE_RESERVED"}

Pins == 0 .. (MAX_PINS - 1)

is_valid_pin(pin) == pin < MAX_PINS

\* PinManager::are_modes_compatible(current, intended)
\* A compatibility table that lacks the GPIO_OUTPUT -> GPIO_INPUT direction
are_modes_compatible_oneway(current, intended) ==
    IF current = intended THEN TRUE
    ELSE IF current = "PINMODE_GPIO_INPUT" /\ intended = "PINMODE_ADC" THEN TRUE
    ELSE IF current = "PINMODE_ADC" /\ intended = "PINMODE_GPIO_INPUT" THEN TRUE
    ELSE IF current = "PINMODE_GPIO_INPUT" /\ intended = "PINMODE_GPIO_OUTPUT" THEN TRUE
    ELSE FALSE

are_modes_compatible(current, intended) ==
    IF current = intended THEN TRUE
    ELSE IF current = "PINMODE_GPIO_INPUT" /\ intended = "PINMODE_ADC" THEN TRUE
    ELSE IF current = "PINMODE_ADC" /\ intended = "PINMODE_GPIO_INPUT" THEN TRUE
    ELSE IF current = "PINMODE_GPIO_INPUT" /\ intended = "PINMODE_GPIO_OUTPUT" THEN TRUE
    ELSE IF current = "PINMODE_GPIO_OUTPUT" /\ intended = "PINMODE_GPIO_INPUT" THEN TRUE
    ELSE FALSE

\* The decision of PinManager::allocate_pin(pin, mode) on the map um
allocate_ok(um, pin, mode) ==
    IF ~is_valid_pin(pin) THEN FALSE
    ELSE IF um[pin] = "PINMODE_RESERVED" THEN FALSE
    ELSE IF um[pin] # "PINMODE_UNUSED" /\ um[pin] # mode
              /\ ~are_modes_compatible(um[pin], mode) THEN FALSE
    ELSE TRUE

\* PinManager::allocate_pin(pin, mode)
AllocatePin(pin, mode) ==
    /\ usage_map_' = IF allocate_ok(usage_map_, pin, mode)
                     THEN [usage_map_ EXCEPT ![pin] = mode]
                     ELSE usage_map_
    /\ last' = Call("allocate_pin", <<pin, mode>>, allocate_ok(usage_map_, pin, mode),
                    IF is_valid_pin(pin) THEN <<usage_map_[pin]>> ELSE <<>>)
    /\ UNCHANGED <<storeVars, clockVars, matchVars, bufferVars, rxVars>>

\* The map after PinManager::free_pin(pin)
free_pin(um, pin) ==
    IF ~is_valid_pin(pin) THEN um
    ELSE IF um[pin] = "PINMODE_RESERVED" THEN um
    ELSE [um EXCEPT ![pin] = "PINMODE_UNUSED"]

FreePin(pin) ==
    /\ usage_map_' = free_pin(usage_map_, pin)
    /\ last' = Call("free_pin", pin, 0, <<>>)
    /\ UNCHANGED <<storeVars, clockVars, matchVars, bufferVars, rxVars>>

\* A probe without the Reserved test
is_available_unguarded(um, pin, intended_mode) ==
    IF ~is_valid_pin(pin) THEN FALSE
    ELSE IF um[pin] = "PINMODE_UNUSED" THEN TRUE
    ELSE um[pin] = intended_mode \/ are_modes_compatible(um[pin], intended_mode)

\* PinManager::is_available(pin, intended_mode)
is_available(um, pin, intended_mode) ==
    IF ~is_valid_pin(pin) THEN FALSE
    ELSE IF um[pin] = "PINMODE_RESERVED" THEN FALSE
    ELSE IF um[pin] = "PINMODE_UNUSED" THEN TRUE
    ELSE um[pin] = intended_mode \/ are_modes_compatible(um[pin], intended_mode)

IsAvailable(pin, mode) ==
    /\ last' = Call("is_available", <<pin, mode>>, is_available(usage_map_, pin, mode), <<>>)
    /\ UNCHANGED <<storeVars, clockVars, pinVars, matchVars, bufferVars, rxVars>>

\* PinManager::clear_all()
ClearAll ==
    /\ usage_map_' = [p \in Pins |-> "PINMODE_UNUSED"]
    /\ last' = Call("clear_all", 0, 0, <<>>)
    /\ UNCHANGED <<storeVars, clockVars, matchVars, bufferVars, rxVars>>

\* The matcher applied to the inputs under test
Match ==
    /\ ~m_out.done
    /\ m_out' = [done |-> TRUE, result |-> matches_rule(m_in.message, m_in.rule)]
    /\ last' = Call("matches_rule", 0, 0, <<>>)
    /\ UNCHANGED <<storeVars, clockVars, pinVars, m_in, bufferVars, rxVars>>

\* ------------------------------------------------------ action data buffer
\* The ActionDataBuffer object as one value
ActionBuffer == [buffer_ |-> buffer_, slot_used_ |-> slot_used_]

\* A range test that lets a zero length through
is_valid_access_any_length(slot, length) ==
    slot < BUFFER_SIZE /\ slot + length <= BUFFER_SIZE

\* ActionDataBuffer::is_valid_access(slot, length); the sum of two uint8_t
\* is an int and cannot wrap
is_valid_access(slot, length) ==
    slot < BUFFER_SIZE /\ length > 0 /\ slot + length <= BUFFER_SIZE

\* ActionDataBuffer::write(slot, data, length) on the object b: its result
\* and the object afterwards.  data.null is a null pointer, data.bytes the
\* memory behind a pointer that is not null.
write(b, slot, data, length) ==
    IF data.null \/ ~is_valid_access(slot, length)
    THEN [ok |-> FALSE, buffer_ |-> b.buffer_, slot_used_ |-> b.slot_used_]
    ELSE [ok |-> TRUE,
          buffer_ |-> [i \in BufferSlots |->
                          IF slot <= i /\ i < slot + length
                          THEN data.bytes[i - slot + 1] ELSE b.buffer_[i]],
          slot_used_ |-> [i \in BufferSlots |->
                          IF slot <= i /\ i < slot + length
                          THEN TRUE ELSE b.slot_used_[i]]]

\* The number of used slots
count_used_slots(used) == Cardinality({i \in BufferSlots : used[i]})

\* The backwards loop of ActionDataBuffer::get_used_length(), from slot i down
RECURSIVE used_length_from(_, _)
used_length_from(used, i) ==
    IF i < 0 THEN 0
    ELSE IF used[i] THEN i + 1
    ELSE used_length_from(used, i - 1)

\* ActionDataBuffer::get_used_length()
get_used_length(used) == used_length_from(used, BUFFER_SIZE - 1)

\* A read_all that reports the whole buffer as valid
read_all_whole(b) == [valid_length |-> BUFFER_SIZE, data |-> b.buffer_]

\* ActionDataBuffer::read_all(valid_length): the length it reports and the
\* memory its pointer gives access to
read_all(b) == [valid_length |-> get_used_length(b.slot_used_), data |-> b.buffer_]

\* ActionDataBuffer::clear() as an object value
clear ==
    [buffer_ |-> [i \in BufferSlots |-> 0], slot_used_ |-> [i \in BufferSlots |-> FALSE]]

\* ActionDataBuffer::clear_range(start_slot, length) on the object b
clear_range(b, start_slot, length) ==
    IF ~is_valid_access(start_slot, length)
    THEN [ok |-> FALSE, buffer_ |-> b.buffer_, slot_used_ |-> b.slot_used_]
    ELSE [ok |-> TRUE,
          buffer_ |-> [i \in BufferSlots |->
                          IF start_slot <= i /\ i < start_slot + length
                          THEN 0 ELSE b.buffer_[i]],
          slot_used_ |-> [i \in BufferSlots |->
                          IF start_slot <= i /\ i < start_slot + length
                          THEN FALSE ELSE b.slot_used_[i]]]

\* ActionDataBuffer::write(slot, data, length)
Write(slot, data, length) ==
    LET r == write(ActionBuffer, slot, data, length) IN
    /\ buffer_' = r.buffer_
    /\ slot_used_' = r.slot_used_
    /\ last' = Call("write", [slot |-> slot, length |-> length, data |-> data], r.ok, <<>>)
    /\ UNCHANGED <<storeVars, clockVars, pinVars, matchVars, rxVars>>

\* ActionDataBuffer::clear()
Clear ==
    /\ buffer_' = clear.buffer_
    /\ slot_used_' = clear.slot_used_
    /\ last' = Call("clear", 0, 0, <<>>)
    /\ UNCHANGED <<storeVars, clockVars, pinVars, matchVars, rxVars>>

\* ActionDataBuffer::clear_range(start_slot, length)
ClearRange(start_slot, length) ==
    LET r == clear_range(ActionBuffer, start_slot, length) IN
    /\ buffer_' = r.buffer_
    /\ slot_used_' = r.slot_used_
    /\ last' = Call("clear_range", [slot |-> start_slot, length |-> length], r.ok, <<>>)
    /\ UNCHANGED <<storeVars, clockVars, pinVars, matchVars, rxVars>>

\* ------------------------------------------------------- buffered actions
\* What one buffered action did: the hardware operations it made, in order,
\* the frame it handed to the bus (none or one) and the length it logged
Did(io, frame, logged) == [io |-> io, frame |-> frame, logged |-> logged]

\* The first n bytes of the memory mem, as a sequence
Prefix(mem, n) == [i \in 1 .. n |-> mem[i - 1]]

\* The object the buffered actions leave: the one given, or the result of a write
Kept(b) == [ok |-> FALSE, buffer_ |-> b.buffer_, slot_used_ |-> b.slot_used_]

\* ActionManager::execute_i2c_read_buffer_action without its overflow test
i2c_read_buffer_unguarded(b, slot, num_bytes, i2c) ==
    IF i2c.init = FALSE
    THEN [r |-> Kept(b), did |-> Did(<<"i2c_initialize">>, <<>>, <<>>)]
    ELSE IF i2c.read = FALSE
    THEN [r |-> Kept(b), did |-> Did(<<"i2c_initialize", "i2c_read">>, <<>>, <<>>)]
    ELSE [r |-> write(b, slot, [null |-> FALSE, bytes |-> i2c.bytes], num_bytes),
          did |-> Did(<<"i2c_initialize", "i2c_read">>, <<>>, <<>>)]

\* ActionManager::execute_i2c_read_buffer_action(sda, scl, addr, reg,
\* num_bytes, slot) on the buffer b.  i2c is the answer of the I2C interface:
\* whether initialize and read succeed and the bytes the device returns.
i2c_read_buffer(b, slot, num_bytes, i2c) ==
    IF slot + num_bytes > BUFFER_SIZE
    THEN [r |-> Kept(b), did |-> Did(<<>>, <<>>, <<>>)]
    ELSE IF i2c.init = FALSE
    THEN [r |-> Kept(b), did |-> Did(<<"i2c_initialize">>, <<>>, <<>>)]
    ELSE IF i2c.read = FALSE
    THEN [r |-> Kept(b), did |-> Did(<<"i2c_initialize", "i2c_read">>, <<>>, <<>>)]
    ELSE [r |-> write(b, slot, [null |-> FALSE, bytes |-> i2c.bytes], num_bytes),
          did |-> Did(<<"i2c_initialize", "i2c_read">>, <<>>, <<>>)]

ExecuteI2cReadBufferAction(slot, num_bytes, i2c) ==
    LET x == i2c_read_buffer(ActionBuffer, slot, num_bytes, i2c) IN
    /\ buffer_' = x.r.buffer_
    /\ slot_used_' = x.r.slot_used_
    /\ last' = Call("execute_i2c_read_buffer_action",
                    [slot |-> slot, length |-> num_bytes], x.r.ok, x.did)
    /\ UNCHANGED <<storeVars, clockVars, pinVars, matchVars, rxVars>>

\* ActionManager::execute_gpio_read_buffer_action(pin, slot); level is what
\* digitalRead returns
ExecuteGpioReadBufferAction(pin, slot, level) ==
    LET mode == "PINMODE_GPIO_INPUT"
        value == IF level # 0 THEN 1 ELSE 0
        go == /\ slot < BUFFER_SIZE
              /\ is_available(usage_map_, pin, mode)
              /\ allocate_ok(usage_map_, pin, mode)
        r == IF go THEN write(ActionBuffer, slot, [null |-> FALSE, bytes |-> <<value>>], 1)
             ELSE Kept(ActionBuffer)
    IN
    /\ usage_map_' = IF slot < BUFFER_SIZE /\ is_available(usage_map_, pin, mode)
                        /\ allocate_ok(usage_map_, pin, mode)
                     THEN [usage_map_ EXCEPT ![pin] = mode] ELSE usage_map_
    /\ buffer_' = r.buffer_
    /\ slot_used_' = r.slot_used_
    /\ last' = Call("execute_gpio_read_buffer_action", [slot |-> slot, length |-> 1], r.ok,
                    Did(IF go THEN <<"pinMode", "digitalRead">> ELSE <<>>, <<>>, <<>>))
    /\ UNCHANGED <<storeVars, clockVars, matchVars, rxVars>>

\* ActionManager::execute_adc_read_buffer_action(pin, slot); adc_value is
\* what analogRead returns, kept as a uint16_t
ExecuteAdcReadBufferAction(pin, slot, adc_value) ==
    LET mode == "PINMODE_ADC"
        data == <<adc_value % U8, (adc_value \div U8) % U8>>
        go == /\ ~(slot + 1 >= BUFFER_SIZE)
              /\ is_available(usage_map_, pin, mode)
              /\ allocate_ok(usage_map_, pin, mode)
        r == IF go THEN write(ActionBuffer, slot, [null |-> FALSE, bytes |-> data], 2)
             ELSE Kept(ActionBuffer)
    IN
    /\ usage_map_' = IF go THEN [usage_map_ EXCEPT ![pin] = mode] ELSE usage_map_
    /\ buffer_' = r.buffer_
    /\ slot_used_' = r.slot_used_
    /\ last' = Call("execute_adc_read_buffer_action", [slot |-> slot, length |-> 2], r.ok,
                    Did(IF go THEN <<"analogRead">> ELSE <<>>, <<>>, <<>>))
    /\ UNCHANGED <<storeVars, clockVars, matchVars, rxVars>>

\* ActionManager::execute_can_send_action(can_id, data, length): the frame
\* handed to the bus, if any, and the result.  can is "not_ready" when there
\* is no interface or it is not ready, else the answer of send_message.
can_send(can_id, data, length, can) ==
    IF can = "not_ready" THEN [frame |-> <<>>, ok |-> FALSE]
    ELSE LET msg_length == IF length > 8 THEN 8 ELSE length IN
         [frame |-> <<[id |-> can_id, length |-> msg_length,
                       data |-> Prefix(data, msg_length)]>>,
          ok |-> (can = "sent")]

\* A buffer send that clears only when the bus took the frame
ExecuteBufferSendActionClearOnSuccess(can_id, length, clear_after, can) ==
    LET all == read_all(ActionBuffer)
        send_length == IF length < all.valid_length THEN length ELSE all.valid_length
        sent == can_send(can_id, all.data, send_length, can)
        reject == length > 8
        after == IF ~reject /\ clear_after /\ sent.ok THEN clear ELSE ActionBuffer
    IN
    /\ buffer_' = after.buffer_
    /\ slot_used_' = after.slot_used_
    /\ last' = Call("execute_buffer_send_action",
                    [length |-> length, clear_after |-> clear_after, can |-> can],
                    IF reject THEN FALSE ELSE sent.ok,
                    IF reject THEN Did(<<>>, <<>>, <<>>)
                    ELSE Did(IF sent.frame # <<>> THEN <<"send_message">> ELSE <<>>, sent.frame,
                             IF sent.ok THEN <<send_length>> ELSE <<>>))
    /\ UNCHANGED <<storeVars, clockVars, pinVars, matchVars, rxVars>>

\* ActionManager::execute_buffer_send_action(can_id, length, clear_after)
ExecuteBufferSendAction(can_id, length, clear_after, can) ==
    LET all == read_all(ActionBuffer)
        send_length == IF length < all.valid_length THEN length ELSE all.valid_length
        sent == can_send(can_id, all.data, send_length, can)
        reject == length > 8
        after == IF ~reject /\ clear_after THEN clear ELSE ActionBuffer
    IN
    /\ buffer_' = after.buffer_
    /\ slot_used_' = after.slot_used_
    /\ last' = Call("execute_buffer_send_action",
                    [length |-> length, clear_after |-> clear_after, can |-> can],
                    IF reject THEN FALSE ELSE sent.ok,
                    IF reject THEN Did(<<>>, <<>>, <<>>)
                    ELSE Did(IF sent.frame # <<>> THEN <<"send_message">> ELSE <<>>, sent.frame,
                             IF sent.ok THEN <<send_length>> ELSE <<>>))
    /\ UNCHANGED <<storeVars, clockVars, pinVars, matchVars, rxVars>>

\* ActionManager::execute_buffer_clear_action()
ExecuteBufferClearAction ==
    /\ buffer_' = clear.buffer_
    /\ slot_used_' = clear.slot_used_
    /\ last' = Call("execute_buffer_clear_action", 0, TRUE, Did(<<>>, <<>>, <<>>))
    /\ UNCHANGED <<storeVars, clockVars, pinVars, matchVars, rxVars>>

\* The extractor of the type under test applied to the inputs under test
Extract ==
    /\ ~m_out.done
    /\ m_out' = [done |-> TRUE, result |-> extract(m_in.type, m_in.can_data, m_in.mapping)]
    /\ last' = Call("extract", 0, 0, <<>>)
    /\ UNCHANGED <<storeVars, clockVars, pinVars, m_in, bufferVars, rxVars>>

\* ------------------------------------------------------------ PWM (SAMD51)
\* SAMD51_PWM::configure(pin, frequency_hz, duty_percent, resolution_bits).
\* can_pwm: the pin's capability flag; tcc: whether the TCC of the pin is
\* found and set up (samd51_get_pwm_tcc and configure_tcc).
configure(can_pwm, duty_percent, resolution_bits, tcc) ==
    IF ~can_pwm THEN FALSE
    ELSE IF duty_percent > 100 THEN FALSE
    ELSE IF resolution_bits \notin {8, 10, 12, 16} THEN FALSE
    ELSE tcc

\* ActionManager::execute_pwm_configure_action(pin, freq_hz, duty, resolution)
ExecutePwmConfigureAction(pin, duty, resolution, can_pwm, tcc) ==
    LET mode == "PINMODE_PWM"
        allocated == /\ can_pwm
                     /\ is_available(usage_map_, pin, mode)
                     /\ allocate_ok(usage_map_, pin, mode)
        result == allocated /\ configure(can_pwm, duty, resolution, tcc)
    IN
    /\ usage_map_' = IF allocated THEN [usage_map_ EXCEPT ![pin] = mode] ELSE usage_map_
    /\ last' = Call("execute_pwm_configure_action", <<pin, duty, resolution>>, result, <<>>)
    /\ UNCHANGED <<storeVars, clockVars, matchVars, bufferVars, rxVars>>

\* ------------------------------------------------- receive path, main loop
\* SAMD51CAN::can_rx_callback(packet_size), which CAN.onReceive registers as
\* the handler of the receive interrupt. ready: is_ready(); read: the answer
\* of read_can_packet(message); passes: passes_filter(message.id).
\* The handler pushes into the std::queue the main loop pops from, and
\* nothing orders the two calls: a push that runs while the main loop is
\* inside rx_queue_.pop() is a data race on the container, after which the
\* pushed frame is in the queue or not (kept).
CanRxCallback(message, ready, read, passes, kept) ==
    LET pushes == ready /\ read /\ passes /\ Len(rx_queue_) < CAN_RX_BUFFER_SIZE
        torn == pushes /\ loop_pc \in {"pop", "pop_torn"}
    IN /\ rx_queue_' = IF pushes /\ (~torn \/ kept) THEN Append(rx_queue_, message)
                       ELSE rx_queue_
       /\ loop_pc' = IF torn THEN "pop_torn" ELSE loop_pc
       /\ last' = Call("can_rx_callback", message, IF pushes THEN 1 ELSE 0, <<>>)
       /\ UNCHANGED <<rx_message, storeVars, clockVars, pinVars, matchVars, bufferVars>>

\* SAMD51CAN::receive_message(message) as process_can_messages calls it, up
\* to its rx_queue_.pop(): the empty test and the copy of front(). On an
\* empty queue the while loop of process_can_messages ends.
ReceiveMessageFront ==
    /\ loop_pc = "receive"
    /\ IF rx_queue_ = <<>>
       THEN /\ loop_pc' = "serial"
            /\ rx_message' = rx_message
       ELSE /\ loop_pc' = "pop"
            /\ rx_message' = Head(rx_queue_)
    /\ last' = Call("receive_message", 0, IF rx_queue_ = <<>> THEN 0 ELSE 1, <<>>)
    /\ UNCHANGED <<rx_queue_, storeVars, clockVars, pinVars, matchVars, bufferVars>>

\* The rx_queue_.pop() of receive_message. removed: whether the removal of
\* the front survives a push that ran in the middle of it.
ReceiveMessagePop(removed) ==
    /\ loop_pc \in {"pop", "pop_torn"}
    /\ rx_queue_' = IF loop_pc = "pop" \/ removed THEN Tail(rx_queue_) ELSE rx_queue_
    /\ loop_pc' = "evaluate"
    /\ last' = Call("pop", 0, 0, <<>>)
    /\ UNCHANGED <<rx_message, storeVars, clockVars, pinVars, matchVars, bufferVars>>

\* The body of the while loop of process_can_messages for the frame just
\* received: action_manager->check_and_execute(message)
ProcessCanMessage(sent, oob) ==
    /\ loop_pc = "evaluate"
    /\ CheckAndExecute(rx_message, sent, oob)
    /\ loop_pc' = "receive"
    /\ UNCHANGED <<rx_queue_, rx_message>>

\* process_serial_input() with no byte waiting on the serial port
ProcessSerialInput ==
    /\ loop_pc = "serial"
    /\ loop_pc' = "periodic"
    /\ last' = Call("process_serial_input", 0, 0, <<>>)
    /\ UNCHANGED <<rx_queue_, rx_message, storeVars, clockVars, pinVars, matchVars, bufferVars>>

\* The rest of loop(): action_manager->update_periodic(), after which loop()
\* returns and is called again
LoopUpdatePeriodic(sent) ==
    /\ loop_pc = "periodic"
    /\ UpdatePeriodic(sent)
    /\ loop_pc' = "receive"
    /\ UNCHANGED <<rx_queue_, rx_message>>

\* ------------------------------------------------ ESP32 persistence (NVS)
\* The Preferences namespace: the rule_count entry and the "rule_<n>" keys.
\* A key never written reads back with length 0, which the loader treats
\* like a stored rule of id 0; it is held as the zeroed rule here.
NoPrefs == [rule_count |-> 0, keys |-> [n \in Slots |-> EmptyRule]]

\* ESP32ActionManager::save_rules_impl(): for every i below MAX_ACTION_RULES
\* the rule get_rule(i) finds (the rule whose id is i) goes under "rule_<i>"
esp32_save_rules_impl(prefs, rs) ==
    [rule_count |-> get_rule_count(rs),
     keys |-> [n \in Slots |->
                 LET index == find_rule_index(rs, n)
                 IN IF index >= 0 /\ rs[index].id # 0 THEN rs[index] ELSE prefs.keys[n]]]

\* The loop of ESP32ActionManager::load_rules_impl() from key i on: each
\* "rule_<i>" below rule_count that holds a rule goes through add_rule
RECURSIVE esp32_load_loop(_, _, _)
esp32_load_loop(prefs, rs, i) ==
    IF i >= MAX_ACTION_RULES \/ i >= prefs.rule_count THEN rs
    ELSE LET rule == prefs.keys[i]
             slot == find_empty_slot(rs)
         IN IF rule.id # 0 /\ is_action_supported(rule.action) /\ slot >= 0
            THEN esp32_load_loop(prefs, [rs EXCEPT ![slot] = rule], i + 1)
            ELSE esp32_load_loop(prefs, rs, i + 1)

esp32_load_rules_impl(prefs, rs) == esp32_load_loop(prefs, rs, 0)

\* save_rules() on the table under test, a restart, then load_rules() into
\* the empty table of the initialized manager
Esp32SaveThenLoad ==
    /\ ~m_out.done
    /\ m_out' = [done |-> TRUE,
                 result |-> esp32_load_rules_impl(esp32_save_rules_impl(NoPrefs, m_in.rules),
                                                  [i \in Slots |-> EmptyRule])]
    /\ last' = Call("load_rules", 0, 0, <<>>)
    /\ UNCHANGED <<storeVars, clockVars, pinVars, m_in, bufferVars, rxVars>>

\* ActionManagerBase::ActionManagerBase() after a power cycle: RAM is
\* rebuilt, the flash contents and nothing else survive.
Reboot ==
    /\ rules_' = [i \in Slots |-> EmptyRule]
    /\ next_rule_id_' = 1
    /\ initialized_' = FALSE
    /\ stamp' = [i \in Slots |-> NoStamp]
    /\ issued' = issued
    /\ now_ms' = Z32
    /\ real_ms' = Z32
    /\ last' = Call("boot", 0, 0, <<>>)
    /\ UNCHANGED <<flash, pinVars, matchVars, bufferVars, rxVars>>

\* ------------------------------------------------------------ initial state
NoMatchInput == [message |-> [id |-> 0, length |-> 0, data |-> Zero8], rule |-> EmptyRule]

StoreInit ==
    /\ rules_ = [i \in Slots |-> EmptyRule]
    /\ next_rule_id_ = 1
    /\ initialized_ = FALSE
    /\ flash = [valid |-> FALSE, rule_count |-> 0, rules |-> <<>>]
    /\ stamp = [i \in Slots |-> NoStamp]
    /\ issued = {}

ClockInit ==
    /\ now_ms = Z32
    /\ real_ms = Z32
    /\ steps = 0
    /\ last = Call("boot", 0, 0, <<>>)

PinInit == usage_map_ = [p \in Pins |-> "PINMODE_UNUSED"]

MatchIdle ==
    /\ m_in = NoMatchInput
    /\ m_out = [done |-> FALSE, result |-> FALSE]

\* ActionDataBuffer::ActionDataBuffer()
BufferInit ==
    /\ buffer_ = [i \in BufferSlots |-> 0]
    /\ slot_used_ = [i \in BufferSlots |-> FALSE]

\* The receive queue after construction, loop() about to be called
RxInit ==
    /\ rx_queue_ = <<>>
    /\ rx_message = [id |-> 0, length |-> 0, data |-> Zero8]
    /\ loop_pc = "receive"
    /\ enqueued = <<>>
    /\ evaluated = <<>>

Init == StoreInit /\ ClockInit /\ PinInit /\ MatchIdle /\ BufferInit /\ RxInit

\* ------------------------------------------------- the rule store on its own
\* Rules offered to add_rule: caller-chosen ids (0 asks for an assigned id)
\* around both ends of the uint8_t range, two payloads, one unsupported kind.
StoreIds == {0, 1, 254, 255}

StoreRule(id, pin, action) ==
    [EmptyRule EXCEPT !.id = id, !.enabled = TRUE,
                      !.can_id = 256, !.can_id_mask = 2047,
                      !.action = action, !.params.pin = pin]

StoreRules ==
    {StoreRule(id, 13, "ACTION_GPIO_TOGGLE") : id \in StoreIds}
        \cup {StoreRule(1, 14, "ACTION_GPIO_TOGGLE"), StoreRule(0, 13, "ACTION_NONE")}

\* Ids asked of remove_rule and set_rule_enabled: those in the table, 0, and one absent
AskedIds == {rules_[i].id : i \in Slots} \cup {0, 7}

\* Whether the flash device accepts a read or write
FlashOutcomes == {TRUE, FALSE}

\* One more call, while the budget lasts
Step == steps < MaxSteps /\ steps' = steps + 1

Next ==
    \/ \E can_if \in {"nullptr", "can"}, fok \in FlashOutcomes :
          Step /\ Initialize(can_if, fok)
    \/ \E rule \in StoreRules, fok \in FlashOutcomes : Step /\ AddRule(rule, fok)
    \/ \E id \in AskedIds, fok \in FlashOutcomes : Step /\ RemoveRule(id, fok)
    \/ \E id \in AskedIds, en \in BOOLEAN, fok \in FlashOutcomes :
          Step /\ SetRuleEnabled(id, en, fok)
    \/ \E id \in AskedIds : Step /\ GetRule(id)
    \/ Step /\ ClearAllRules
    \/ \E fok \in FlashOutcomes : Step /\ LoadRules(fok)
    \/ Step /\ Reboot

Spec == Init /\ [][Next]_vars


\* ------------------------------------------- frames against a filled table
Bytes8(b0, b1) == [i \in 0 .. 7 |-> IF i = 0 THEN b0 ELSE IF i = 1 THEN b1 ELSE 0]

Frame(id, length, b0, b1) == [id |-> id, length |-> length, data |-> Bytes8(b0, b1)]

\* 0x100 / 0x7FF, any payload: toggle pin 13 (fixed parameter)
ToggleRule ==
    [EmptyRule EXCEPT !.enabled = TRUE, !.can_id = 256, !.can_id_mask = 2047,
                      !.action = "ACTION_GPIO_TOGGLE", !.params.pin = 13]

\* 0x100 / 0x7FF, high nibble of the second byte 1: clear the pin named by
\* byte 0 of the frame (the board has no pin 30, so that frame's dispatch fails)
FromFrameRule ==
    [EmptyRule EXCEPT !.enabled = TRUE, !.can_id = 256, !.can_id_mask = 2047,
                      !.data = Bytes8(170, 16), !.data_mask = Bytes8(0, 240), !.data_length = 2,
                      !.action = "ACTION_GPIO_CLEAR", !.param_source = "PARAM_FROM_CAN_DATA"]

\* catch-all (zero id mask): send 0x555 on the bus
CatchAllSendRule ==
    [EmptyRule EXCEPT !.enabled = TRUE, !.can_id = 1911, !.can_id_mask = 0,
                      !.action = "ACTION_CAN_SEND",
                      !.params.can_id = 1365, !.params.length = 2]

DispatchRules == {ToggleRule, FromFrameRule, CatchAllSendRule}

DispatchFrames ==
    {Frame(256, 0, 0, 0), Frame(256, 2, 13, 31), Frame(256, 2, 30, 31),
     Frame(256, 2, 13, 47), Frame(256, 1, 13, 31), Frame(257, 2, 13, 31)}

\* Ids held by the table's slots (0 for an unused one)
TableIds == {rules_[i].id : i \in Slots}

\* What the CAN interface answers to the send made for each slot that
\* holds a bus-send rule (no other slot asks it anything)
SendSlots == {i \in Slots : rules_[i].action \in {"ACTION_CAN_SEND", "ACTION_CAN_SEND_PERIODIC"}}

SendOutcomes == {[i \in Slots |-> i \in ok] : ok \in SUBSET SendSlots}

\* A byte read past the end of the payload, where some rule can read one
OobBytes == IF \E i \in Slots : rules_[i].param_data_offset > 0 THEN {0, 255} ELSE {0}

\* The run budget is not used
Free == UNCHANGED steps

DispatchNext ==
    \/ Free /\ Initialize("can", TRUE)
    \/ \E rule \in DispatchRules : Free /\ AddRule(rule, TRUE)
    \/ \E id \in TableIds, en \in BOOLEAN : Free /\ SetRuleEnabled(id, en, TRUE)
    \/ \E message \in DispatchFrames, sent \in SendOutcomes, oob \in OobBytes :
          Free /\ CheckAndExecute(message, sent, oob) /\ UNCHANGED rxVars

SpecDispatch == Init /\ [][DispatchNext]_vars


\* ------------------------------------------------- the pin manager on its own
\* Pin numbers asked for: every pin of the map and the first one past it
AskedPins == 0 .. MAX_PINS

\* Modes asked for: both compatible pairs, two modes compatible with nothing
\* else (PWM and I2C SDA stand for DAC, I2C SCL and the SPI roles, which the
\* code treats alike), the reserved mark and PINMODE_UNUSED itself
AskedModes ==
    {"PINMODE_UNUSED", "PINMODE_GPIO_INPUT", "PINMODE_GPIO_OUTPUT", "PINMODE_PWM",
     "PINMODE_ADC", "PINMODE_I2C_SDA", "PINMODE_RESERVED"}

PinNext ==
    \/ \E pin \in AskedPins, mode \in AskedModes : Free /\ AllocatePin(pin, mode)
    \/ \E pin \in AskedPins : Free /\ FreePin(pin)
    \/ \E pin \in AskedPins, mode \in AskedModes : Free /\ IsAvailable(pin, mode)
    \/ Free /\ ClearAll

SpecPin == Init /\ [][PinNext]_vars


\* ----------------------------------------------------- the matcher on its own
MatchFrames ==
    {Frame(id, length, b0, b1) :
        id \in {256, 257}, length \in {0, 1, 2, 8}, b0 \in {13, 30}, b1 \in {31, 47}}

MatchRules ==
    {[EmptyRule EXCEPT !.id = 1, !.enabled = TRUE,
                       !.can_id = id, !.can_id_mask = mask,
                       !.data = Bytes8(13, 16), !.data_mask = Bytes8(m0, m1),
                       !.data_length = dl] :
        id \in {256, 1911}, mask \in {0, 2046, 2047}, dl \in {0, 1, 2, 9},
        m0 \in {0, 255}, m1 \in {240, 255}}

MatchInit ==
    /\ StoreInit /\ ClockInit /\ PinInit /\ BufferInit /\ RxInit
    /\ m_in \in [message : MatchFrames, rule : MatchRules]
    /\ m_out = [done |-> FALSE, result |-> FALSE]

MatchNext == Free /\ Match

SpecMatch == MatchInit /\ [][MatchNext]_vars


\* ------------------------------------------- the scheduler against the clock
\* 0x100 / 0x7FF: send 0x200 every 100 ms
Periodic100 ==
    [EmptyRule EXCEPT !.enabled = TRUE, !.can_id = 256, !.can_id_mask = 2047,
                      !.action = "ACTION_CAN_SEND_PERIODIC",
                      !.params.can_id = 512, !.params.length = 1,
                      !.params.interval_ms = W(0, 100)]

Periodic100Off == [Periodic100 EXCEPT !.enabled = FALSE]

\* catch-all, interval not set
Periodic0 ==
    [EmptyRule EXCEPT !.enabled = TRUE, !.can_id_mask = 0,
                      !.action = "ACTION_CAN_SEND_PERIODIC",
                      !.params.can_id = 768, !.params.length = 1]

SchedRules == {Periodic100, Periodic100Off, Periodic0}

\* The table after initialize() on an empty flash and add_rule of each rule
\* of seq in turn (each with id 0, so the ids assigned are 1, 2, ...)
Built(seq) ==
    [i \in Slots |-> IF i < Len(seq) THEN [seq[i + 1] EXCEPT !.id = i + 1] ELSE EmptyRule]

SchedInit ==
    /\ \E seq \in [1 .. SchedLen -> SchedRules] :
          /\ rules_ = Built(seq)
          /\ flash = save_rules_impl([valid |-> FALSE, rule_count |-> 0, rules |-> <<>>],
                                     Built(seq), TRUE)
    /\ next_rule_id_ = SchedLen + 1
    /\ initialized_ = TRUE
    /\ stamp = [i \in Slots |-> NoStamp]
    /\ issued = 1 .. SchedLen
    /\ ClockInit /\ PinInit /\ MatchIdle /\ BufferInit /\ RxInit

\* 99 ms, 1 ms, and a long quiet stretch that ends 100 ms before the clock wraps
ClockDeltas == {W(0, 99), W(0, 1), W(65535, 65436)}

SchedFrames == {Frame(256, 0, 0, 0)}

\* The bus is up or down for the length of one call
BusOutcomes == {[i \in Slots |-> up] : up \in BOOLEAN}

SchedNext ==
    \/ \E d \in ClockDeltas : steps < MaxAdvances /\ steps' = steps + 1 /\ AdvanceClock(d)
    \/ \E sent \in BusOutcomes : Free /\ UpdatePeriodic(sent) /\ UNCHANGED rxVars
    \/ \E message \in SchedFrames, sent \in BusOutcomes, oob \in OobBytes :
          Free /\ CheckAndExecute(message, sent, oob) /\ UNCHANGED rxVars

SpecSched == SchedInit /\ [][SchedNext]_vars


\* ------------------------------------------- specification: action dispatch
\* The kinds action_type_to_string and is_action_supported know
ActionKinds ==
    {"ACTION_NONE", "ACTION_GPIO_SET", "ACTION_GPIO_CLEAR", "ACTION_GPIO_TOGGLE",
     "ACTION_CAN_SEND", "ACTION_CAN_SEND_PERIODIC", "ACTION_PWM_SET",
     "ACTION_NEOPIXEL_COLOR", "ACTION_NEOPIXEL_OFF", "ACTION_PWM_CONFIGURE",
     "ACTION_I2C_WRITE", "ACTION_I2C_READ_BUFFER", "ACTION_GPIO_READ_BUFFER",
     "ACTION_ADC_READ_BUFFER", "ACTION_BUFFER_SEND", "ACTION_BUFFER_CLEAR"}

ParamSources == {"PARAM_FROM_RULE", "PARAM_FROM_CAN_DATA"}

\* One catch-all rule of each kind and parameter source, fixed parameters set
ExecRules ==
    {[EmptyRule EXCEPT !.id = 1, !.enabled = TRUE, !.can_id_mask = 0,
                       !.action = kind, !.param_source = source,
                       !.params.pin = 13, !.params.duty = 128,
                       !.params.can_id = 512, !.params.length = 1] :
        kind \in ActionKinds, source \in ParamSources}

ExecFrames == {Frame(256, 0, 0, 0), Frame(256, 2, 13, 31), Frame(256, 2, 30, 31)}

\* execute_action applied to the inputs under test; sent is the bus's answer
Execute(sent) ==
    /\ ~m_out.done
    /\ m_out' = [done |-> TRUE,
                 result |-> execute_action(m_in.rule, m_in.message, sent, 0)]
    /\ last' = Call("execute_action", sent, 0, <<>>)
    /\ UNCHANGED <<storeVars, clockVars, pinVars, m_in, bufferVars, rxVars>>

ExecInit ==
    /\ StoreInit /\ ClockInit /\ PinInit /\ BufferInit /\ RxInit
    /\ m_in \in [message : ExecFrames, rule : ExecRules]
    /\ m_out = [done |-> FALSE, result |-> NoCall]

ExecNext == \E sent \in BOOLEAN : Free /\ Execute(sent)

SpecExec == ExecInit /\ [][ExecNext]_vars


\* ----------------------------------------- specification: the data buffer
\* Slots and lengths asked for: slots at both ends and in the middle, the
\* one past the end and the largest uint8_t; no bytes, one, a few, the whole
\* buffer and more than that.  Every pattern of valid slots can be built.
AskedSlots == {0, 1, 2, 4, 5, BUFFER_SIZE - 1, BUFFER_SIZE, U8 - 1}
AskedLengths == {0, 1, 3, BUFFER_SIZE, BUFFER_SIZE + 1}

\* write is handed bytes of 0xAB or, in the second disjunct, a null pointer
BufferNext ==
    \/ \E slot \in AskedSlots, length \in AskedLengths :
          Free /\ Write(slot, [null |-> FALSE, bytes |-> [i \in 1 .. BUFFER_SIZE + 1 |-> 171]],
                        length)
    \/ \E slot \in {0, 2}, length \in {1, 3} :
          Free /\ Write(slot, [null |-> TRUE, bytes |-> <<>>], length)
    \/ Free /\ Clear
    \/ \E slot \in AskedSlots, length \in AskedLengths : Free /\ ClearRange(slot, length)

SpecBuffer == Init /\ [][BufferNext]_vars


\* ------------------------------------ specification: the buffered actions
\* The I2C interface fails to initialize, fails to read, or returns the
\* device's bytes
I2cAnswers ==
    {[init |-> FALSE, read |-> FALSE, bytes |-> <<>>],
     [init |-> TRUE, read |-> FALSE, bytes |-> <<>>],
     [init |-> TRUE, read |-> TRUE, bytes |-> <<160, 161, 162, 163, 164, 165, 166, 167, 168>>]}

\* I2C reads (slot, num_bytes) inside the buffer, up to its end, across its
\* end, behind it, and of nothing at all; GPIO and ADC reads of a pin the
\* board has and of one it has not, at the first and the last slots; sends of
\* no, some, all and too many bytes with the bus not ready, failing or
\* sending; and a pin taken for PWM, which no read can share
BufferActionNext ==
    \/ \E rd \in {<<0, 3>>, <<2, 6>>, <<6, 2>>, <<BUFFER_SIZE - 1, 2>>,
                  <<BUFFER_SIZE, 1>>, <<0, BUFFER_SIZE + 1>>, <<0, 0>>},
          i2c \in I2cAnswers :
          Free /\ ExecuteI2cReadBufferAction(rd[1], rd[2], i2c)
    \/ \E pin \in {0, MAX_PINS}, slot \in {0, BUFFER_SIZE - 1, BUFFER_SIZE}, level \in {0, 1} :
          Free /\ ExecuteGpioReadBufferAction(pin, slot, level)
    \/ \E pin \in {0, MAX_PINS}, slot \in {0, BUFFER_SIZE - 2, BUFFER_SIZE - 1},
          adc_value \in {2748} :
          Free /\ ExecuteAdcReadBufferAction(pin, slot, adc_value)
    \/ \E length \in {0, 3, 5, BUFFER_SIZE, BUFFER_SIZE + 1}, clear_after \in BOOLEAN,
          can \in {"not_ready", "send_fails", "sent"} :
          Free /\ ExecuteBufferSendAction(512, length, clear_after, can)
    \/ Free /\ ExecuteBufferClearAction
    \/ Free /\ AllocatePin(0, "PINMODE_PWM")

SpecBufferAction == Init /\ [][BufferActionNext]_vars


\* ------------------------------------------ specification: the extractors
\* Payloads with high bits set and clear in every position
ExtractPayloads ==
    {<<18, 52, 86, 120, 154, 188, 222, 240>>,
     <<255, 128, 0, 127, 1, 180, 5, 200>>,
     <<0, 0, 0, 0, 0, 0, 0, 0>>}

\* The limits of a mapping of each type, as min_value <= max_value in the
\* type's own order; negative limits are stored as uint32_t
ExtractLimits(type) ==
    IF type = "PARAM_UINT8"
    THEN {<<Z32, W(0, 255)>>, <<W(0, 10), W(0, 100)>>, <<Z32, W(0, 100)>>,
          <<W(0, 10), W(0, 255)>>}
    ELSE IF type = "PARAM_UINT16"
    THEN {<<Z32, W(0, 65535)>>, <<W(0, 256), W(0, 1000)>>, <<Z32, W(0, 1000)>>,
          <<W(0, 256), W(0, 65535)>>}
    ELSE IF type = "PARAM_INT8"
         THEN {<<W(65535, 65408), W(0, 127)>>, <<W(65535, 65526), W(0, 100)>>,
               <<Z32, W(0, 127)>>, <<W(65535, 65436), W(65535, 65526)>>}
    ELSE IF type = "PARAM_INT16"
         THEN {<<W(65535, 32768), W(0, 32767)>>, <<W(65535, 64536), W(0, 1000)>>,
               <<Z32, W(0, 32767)>>, <<W(65535, 64536), W(65535, 65526)>>}
    ELSE {<<Z32, W(65535, 65535)>>, <<W(1, 0), W(32768, 0)>>,
          <<Z32, W(32768, 0)>>, <<W(1, 0), W(65535, 65535)>>}

ParamTypes ==
    {"PARAM_UINT8", "PARAM_UINT16", "PARAM_UINT32", "PARAM_INT8", "PARAM_INT16",
     "PARAM_FLOAT", "PARAM_BOOL"}

\* Every type with every payload (as the memory can_data[0..7]), byte indexes
\* inside, at the edge of and past each width, bit fields of 1, 4 and 8 bits
\* at offsets 0, 4 and 7, and the limits of the type
ExtractInit ==
    /\ StoreInit /\ ClockInit /\ PinInit /\ BufferInit /\ RxInit
    /\ \E type \in ParamTypes, bytes \in ExtractPayloads,
          idx \in {0, 1, 4, 5, 6, 7, 8, U8 - 1}, off \in {0, 4, 7}, len \in {1, 4, 8} :
          \E lim \in ExtractLimits(type) :
             m_in = [type |-> type, can_data |-> [i \in 0 .. 7 |-> bytes[i + 1]],
                     mapping |-> Mapping(idx, off, len, lim[1], lim[2])]
    /\ m_out = [done |-> FALSE, result |-> FALSE]

ExtractNext == Free /\ Extract

SpecExtract == ExtractInit /\ [][ExtractNext]_vars


\* ------------------------------------- specification: the text entry point
\* The first seven fields of a well-formed command: id, can_id, can_id_mask,
\* data, data_mask, data_length and the action's name
CommandHead(id, action_type) == <<id, "100", "7FF", "", "", "0", action_type>>

\* Commands: well-formed ones with each spelling of param_source the parser
\* knows, ones with other spellings, ones that stop short, an unknown action,
\* one with a one-byte data pattern and one bus send with a one-byte payload
ParseCommands ==
    {CommandHead("0", "GPIO_SET") \o <<source, "13">> :
        source \in {"fixed", "candata", "rule", "can", "FIXED", "frame", ""}}
    \cup {CommandHead("5", "GPIO_SET") \o <<"fixed", "13">>,
          CommandHead("0", "PWM_SET") \o <<"fixed", "13", "128">>,
          CommandHead("0", "CAN_SEND_PERIODIC") \o <<"fixed", "200", "", "300">>,
          CommandHead("0", "NEOPIXEL_OFF") \o <<"candata">>,
          CommandHead("0", "I2C_WRITE") \o <<"fixed">>,
          <<"0", "100", "7FF", "0D", "FF", "1", "GPIO_SET", "fixed", "13">>,
          CommandHead("0", "CAN_SEND") \o <<"fixed", "200", "13">>,
          CommandHead("0", "GPIO_SET"),
          CommandHead("0", "GPIO_SET") \o <<"">>,
          <<"0", "100", "7FF">>,
          <<>>}

ParseNext ==
    \/ \E can_if \in {"nullptr", "can"} : Free /\ Initialize(can_if, TRUE)
    \/ \E fields \in ParseCommands : Free /\ ParseAndAddRule(fields, TRUE)

SpecParse == Init /\ [][ParseNext]_vars


\* ------------------------------------- the receive path under the main loop
\* Frames on the bus: two that differ in id and payload. The interface is
\* ready once setup() has run; a packet may fail to read or be filtered out.
\* Arrivals are counted against MaxFrames.
RxNext ==
    \/ \E message \in {Frame(256, 0, 0, 0), Frame(257, 2, 13, 31)},
          read \in BOOLEAN, passes \in BOOLEAN, kept \in BOOLEAN :
          /\ Len(enqueued) < MaxFrames
          /\ Free /\ CanRxCallback(message, TRUE, read, passes, kept)
          /\ enqueued' = IF last'.ret = 1 THEN Append(enqueued, message) ELSE enqueued
          /\ UNCHANGED evaluated
    \/ Free /\ ReceiveMessageFront /\ UNCHANGED <<enqueued, evaluated>>
    \/ \E removed \in BOOLEAN :
          Free /\ ReceiveMessagePop(removed) /\ UNCHANGED <<enqueued, evaluated>>
    \/ \E sent \in BusOutcomes, oob \in OobBytes :
          /\ Free /\ ProcessCanMessage(sent, oob)
          /\ evaluated' = Append(evaluated, rx_message)
          /\ UNCHANGED enqueued
    \/ Free /\ ProcessSerialInput /\ UNCHANGED <<enqueued, evaluated>>
    \/ \E sent \in BusOutcomes :
          Free /\ LoopUpdatePeriodic(sent) /\ UNCHANGED <<enqueued, evaluated>>

SpecRx == SchedInit /\ [][RxNext]_vars


\* --------------------------------------------- ESP32: save, restart, load
\* Tables under test: every slot empty or holding a toggle rule, with ids
\* below, at and above the table's size, no id twice
Esp32Init ==
    /\ StoreInit /\ ClockInit /\ PinInit /\ BufferInit /\ RxInit
    /\ \E ids \in [Slots -> {0, 1, 2, MAX_ACTION_RULES, MAX_ACTION_RULES + 2}] :
          /\ \A i, j \in Slots : (i # j /\ ids[i] # 0) => ids[i] # ids[j]
          /\ m_in = [rules |-> [i \in Slots |->
                                  IF ids[i] = 0 THEN EmptyRule
                                  ELSE [ToggleRule EXCEPT !.id = ids[i]]]]
    /\ m_out = [done |-> FALSE, result |-> FALSE]

Esp32Next == Free /\ Esp32SaveThenLoad

SpecEsp32 == Esp32Init /\ [][Esp32Next]_vars


\* ------------------------------------------------------- the edit command
\* Rules are added with an id of their own or one the manager assigns, and
\* edited with a well-formed replacement, one whose param_source is not
\* known and one that stops short; edits count against the run budget.
EditNext ==
    \/ Free /\ Initialize("can", TRUE)
    \/ \E fields \in {CommandHead("0", "GPIO_SET") \o <<"fixed", "13">>,
                      CommandHead("5", "GPIO_SET") \o <<"fixed", "13">>} :
          Free /\ ParseAndAddRule(fields, TRUE)
    \/ \E id_field \in {"1", "5", "13"},
          rest \in {Tail(CommandHead("", "GPIO_CLEAR")) \o <<"fixed", "5">>,
                    Tail(CommandHead("", "GPIO_CLEAR")) \o <<"FIXED", "5">>,
                    Tail(CommandHead("", "GPIO_CLEAR"))} :
          Step /\ HandleEditCommand(id_field, rest, TRUE)

SpecEdit == Init /\ [][EditNext]_vars


\* --------------------------------------- actions that allocate their pin
\* Pins are taken and freed by hand and by the PWM-configure and buffered
\* GPIO read actions; duties and resolutions inside and outside what
\* configure accepts, a pin of the map and the first one past it.
PwmNext ==
    \/ \E pin \in Pins, mode \in {"PINMODE_GPIO_INPUT", "PINMODE_GPIO_OUTPUT"} :
          Free /\ AllocatePin(pin, mode)
    \/ \E pin \in Pins : Free /\ FreePin(pin)
    \/ \E pin \in {0, 1, MAX_PINS}, duty \in {50, 101}, resolution \in {8, 9},
          can_pwm \in BOOLEAN, tcc \in BOOLEAN :
          Free /\ ExecutePwmConfigureAction(pin, duty, resolution, can_pwm, tcc)
    \/ \E pin \in {0, MAX_PINS}, slot \in {0, BUFFER_SIZE}, level \in {0, 1} :
          Free /\ ExecuteGpioReadBufferAction(pin, slot, level)

SpecPwm == Init /\ [][PwmNext]_vars


\* ------------------------------------------- the main loop kept running
\* One pass of the processor through the main loop: the next step of loop()
\* from where it stands. The bus accepts every send.
LoopStep ==
    \/ ReceiveMessageFront
    \/ \E removed \in BOOLEAN : ReceiveMessagePop(removed)
    \/ ProcessCanMessage([i \in Slots |-> TRUE], 0)
    \/ ProcessSerialInput
    \/ LoopUpdatePeriodic([i \in Slots |-> TRUE])

\* Frames arrive whenever the bus delivers one, with nothing bounding how
\* often; the clock moves on in steps of one interval.
LoopNext ==
    \/ \E kept \in BOOLEAN :
          Free /\ CanRxCallback(Frame(256, 0, 0, 0), TRUE, TRUE, TRUE, kept)
               /\ UNCHANGED <<enqueued, evaluated>>
    \/ Free /\ LoopStep /\ UNCHANGED <<enqueued, evaluated>>
    \/ steps < MaxAdvances /\ steps' = steps + 1 /\ AdvanceClock(W(0, 100))

\* The processor keeps executing the main loop, and the clock keeps
\* advancing while the run lasts; the receive interrupt owes nothing.
SpecLoop ==
    /\ SchedInit
    /\ [][LoopNext]_vars
    /\ WF_vars(LoopStep /\ UNCHANGED <<steps, enqueued, evaluated>>)
    /\ WF_vars(steps < MaxAdvances /\ steps' = steps + 1 /\ AdvanceClock(W(0, 100)))


\* ======================================================================
\* Properties
\* ======================================================================
InUse(rule) == rule.id # 0

\* The match condition as the specification words it
IdMatches(frame, rule) ==
    BitAnd(frame.id, rule.can_id_mask) = BitAnd(rule.can_id, rule.can_id_mask)

DataMatches(frame, rule) ==
    \/ rule.data_length = 0
    \/ /\ frame.length >= rule.data_length
       /\ \A i \in 0 .. 7 :
             i < rule.data_length =>
                BitAnd(frame.data[i], rule.data_mask[i])
                    = BitAnd(rule.data[i], rule.data_mask[i])

SpecifiedMatch(frame, rule) == IdMatches(frame, rule) /\ DataMatches(frame, rule)

TraceSlots(trace) == {trace[k].slot : k \in 1 .. Len(trace)}

Times(trace, i) == Cardinality({k \in 1 .. Len(trace) : trace[k].slot = i})

\* C1: no two in-use slots of the rule table hold the same id, after any
\* sequence of add, remove, set_enabled, clear and load operations.
C1_UniqueIds ==
    \A i, j \in Slots :
        (i # j /\ InUse(rules_[i]) /\ InUse(rules_[j])) => rules_[i].id # rules_[j].id

\* C2: for each inbound frame the rules dispatched are exactly the in-use,
\* enabled rules that match it, each once, in ascending slot order; a rule
\* 0x100 / 0x7FF with data_length 0 is dispatched once for every frame with
\* id 0x100, whatever its payload, and never for another id.
C2_DispatchAllMatchesInOrder ==
    last.op = "check_and_execute" =>
        /\ \A k \in 1 .. (Len(last.trace) - 1) : last.trace[k].slot < last.trace[k + 1].slot
        /\ TraceSlots(last.trace) =
              {i \in Slots : InUse(rules_[i]) /\ rules_[i].enabled
                                /\ SpecifiedMatch(last.arg, rules_[i])}
        /\ \A i \in Slots :
              (InUse(rules_[i]) /\ rules_[i].enabled /\ rules_[i].can_id = 256
                  /\ rules_[i].can_id_mask = 2047 /\ rules_[i].data_length = 0)
                 => Times(last.trace, i) = (IF last.arg.id = 256 THEN 1 ELSE 0)

\* A frame dispatched two rules and passed over an enabled rule between them
C2_Witness ==
    /\ last.op = "check_and_execute"
    /\ Len(last.trace) = 2
    /\ \E i \in Slots :
          /\ last.trace[1].slot < i /\ i < last.trace[2].slot
          /\ InUse(rules_[i]) /\ rules_[i].enabled

\* C3: when the dispatch of a matching rule fails, every later matching rule
\* (in slot order) is still dispatched against the same frame.
C3_FailureDoesNotStopLaterRules ==
    last.op = "check_and_execute" =>
        \A k \in 1 .. Len(last.trace) :
            ~last.trace[k].ok =>
                \A j \in Slots :
                    (j > last.trace[k].slot /\ InUse(rules_[j]) /\ rules_[j].enabled
                        /\ SpecifiedMatch(last.arg, rules_[j]))
                       => \E n \in (k + 1) .. Len(last.trace) : last.trace[n].slot = j

\* A failed dispatch was followed by a later rule's successful dispatch
C3_Witness ==
    /\ last.op = "check_and_execute"
    /\ \E k \in 1 .. Len(last.trace), n \in 1 .. Len(last.trace) :
          k < n /\ ~last.trace[k].ok /\ last.trace[n].ok

\* C4: matches(frame, rule) is true exactly when the masked ids agree and
\* either data_length is 0 or the frame has at least data_length bytes and
\* every compared byte agrees under its mask; a zero id mask matches any id,
\* and data_length 0 ignores payload content and frame length.
C4_MatchesAsSpecified ==
    m_out.done =>
        /\ m_out.result = SpecifiedMatch(m_in.message, m_in.rule)
        /\ (m_in.rule.can_id_mask = 0 /\ m_in.rule.data_length = 0) => m_out.result
        /\ m_in.rule.data_length = 0 => (m_out.result = IdMatches(m_in.message, m_in.rule))

\* A catch-all rule matched an empty frame carrying another id
C4_Witness ==
    /\ m_out.done /\ m_out.result
    /\ m_in.rule.can_id_mask = 0 /\ m_in.rule.data_length = 0
    /\ m_in.message.id # m_in.rule.can_id /\ m_in.message.length = 0

\* The rules a scheduler tick may dispatch
Schedulable(rule) ==
    /\ InUse(rule) /\ rule.enabled
    /\ rule.action = "ACTION_CAN_SEND_PERIODIC"
    /\ rule.params.interval_ms # Z32

Elapsed32(rule) == SubU32(now_ms, rule.last_execute_ms)

Accounted(before, after) ==
    /\ after.last_execute_ms = now_ms
    /\ after.execute_count = AddU32(before.execute_count, W(0, 1))

\* C5 as stated: on a tick at now_ms a schedulable rule is dispatched if and
\* only if now_ms - last_execute_ms >= interval_ms (interval 100, last 0:
\* at 100 but not at 99), and the dispatch sets last_execute_ms to now_ms
\* and adds exactly 1 to execute_count.
C5_Original ==
    [][last'.op = "update_periodic" =>
          \A i \in Slots :
              Schedulable(rules_[i]) =>
                 LET disp == i \in TraceSlots(last'.trace)
                 IN /\ disp <=> GeU32(Elapsed32(rules_[i]), rules_[i].params.interval_ms)
                    /\ (rules_[i].params.interval_ms = W(0, 100)
                           /\ rules_[i].last_execute_ms = Z32 /\ now_ms = W(0, 100)) => disp
                    /\ (rules_[i].params.interval_ms = W(0, 100)
                           /\ rules_[i].last_execute_ms = Z32 /\ now_ms = W(0, 99)) => ~disp
                    /\ disp => Accounted(rules_[i], rules_'[i])]_vars

\* C5, amended: the due test is as stated; a dispatch whose send succeeds
\* sets last_execute_ms to now_ms and adds exactly 1 to execute_count; a
\* dispatch whose send fails, and a tick that does not dispatch the rule,
\* leave the rule as it was.
C5_Amended ==
    [][last'.op = "update_periodic" =>
          \A i \in Slots :
              Schedulable(rules_[i]) =>
                 LET disp == i \in TraceSlots(last'.trace)
                     sent == \E k \in 1 .. Len(last'.trace) :
                                 last'.trace[k].slot = i /\ last'.trace[k].ok
                 IN /\ disp <=> GeU32(Elapsed32(rules_[i]), rules_[i].params.interval_ms)
                    /\ Times(last'.trace, i) <= 1
                    /\ (rules_[i].params.interval_ms = W(0, 100)
                           /\ rules_[i].last_execute_ms = Z32 /\ now_ms = W(0, 100)) => disp
                    /\ (rules_[i].params.interval_ms = W(0, 100)
                           /\ rules_[i].last_execute_ms = Z32 /\ now_ms = W(0, 99)) => ~disp
                    /\ sent => /\ Accounted(rules_[i], rules_'[i])
                               /\ rules_'[i] = [rules_[i] EXCEPT
                                                   !.last_execute_ms = rules_'[i].last_execute_ms,
                                                   !.execute_count = rules_'[i].execute_count]
                    /\ ~sent => rules_'[i] = rules_[i]]_vars

\* The tick at 100 ms sent a rule of interval 100 for the first time
C5_Witness ==
    /\ last.op = "update_periodic" /\ now_ms = W(0, 100)
    /\ \E k \in 1 .. Len(last.trace) :
          /\ last.trace[k].ok
          /\ rules_[last.trace[k].slot].params.interval_ms = W(0, 100)
          /\ rules_[last.trace[k].slot].last_execute_ms = W(0, 100)
          /\ rules_[last.trace[k].slot].execute_count = W(0, 1)

\* C6: a CanSendPeriodic rule dispatched because an inbound frame matched it
\* goes through the same send and has last_execute_ms and execute_count
\* updated as on an interval-elapse dispatch.
C6_FrameDispatchAccounts ==
    [][last'.op = "check_and_execute" =>
          \A k \in 1 .. Len(last'.trace) :
              (rules_[last'.trace[k].slot].action = "ACTION_CAN_SEND_PERIODIC"
                  /\ last'.trace[k].ok)
                 => /\ last'.trace[k].call[1] = "can_send"
                    /\ Accounted(rules_[last'.trace[k].slot], rules_'[last'.trace[k].slot])]_vars

\* C7: a CanSendPeriodic rule with interval_ms 0 is dispatched by no tick,
\* whatever the clock, and is dispatched by a frame that matches it.
C7_ZeroIntervalDormant ==
    /\ last.op = "update_periodic" =>
          \A k \in 1 .. Len(last.trace) :
              rules_[last.trace[k].slot].params.interval_ms # Z32
    /\ last.op = "check_and_execute" =>
          \A i \in Slots :
              (InUse(rules_[i]) /\ rules_[i].enabled
                  /\ rules_[i].action = "ACTION_CAN_SEND_PERIODIC"
                  /\ rules_[i].params.interval_ms = Z32
                  /\ SpecifiedMatch(last.arg, rules_[i]))
                 => \E k \in 1 .. Len(last.trace) :
                       last.trace[k].slot = i /\ last.trace[k].call[1] = "can_send"

\* A tick at 100 ms dispatched a rule and passed over an enabled rule of
\* interval 0
C7_Witness ==
    /\ last.op = "update_periodic" /\ now_ms = W(0, 100)
    /\ Len(last.trace) >= 1
    /\ \E i \in Slots :
          /\ InUse(rules_[i]) /\ rules_[i].enabled
          /\ rules_[i].action = "ACTION_CAN_SEND_PERIODIC"
          /\ rules_[i].params.interval_ms = Z32

\* C8: the due test is wraparound-safe: for a rule whose last_execute_ms was
\* written less than 2^32 ms of real time ago, a tick dispatches it if and
\* only if at least interval_ms of real time has passed since, also when
\* the 32-bit clock has wrapped in between.
C8_WraparoundSafe ==
    [][last'.op = "update_periodic" =>
          \A i \in Slots :
              (Schedulable(rules_[i]) /\ stamp[i] # NoStamp
                  /\ SubWide(real_ms, stamp[i])[1] < U16)
                 => (i \in TraceSlots(last'.trace)
                        <=> GeU32(SubWide(real_ms, stamp[i]), rules_[i].params.interval_ms))]_vars

\* The clock has just wrapped to 0 and the tick sent a rule for the second
\* time, 100 ms after the first
C8_Witness ==
    /\ last.op = "update_periodic"
    /\ now_ms = Z32 /\ real_ms = W(U16, 0)
    /\ \E k \in 1 .. Len(last.trace) :
          /\ last.trace[k].ok
          /\ rules_[last.trace[k].slot].execute_count = W(0, 2)
          /\ stamp[last.trace[k].slot] = real_ms

\* allocate's decision as the specification words it
SpecifiedAllocate(um, pin, mode) ==
    /\ pin \in 0 .. (MAX_PINS - 1)
    /\ um[pin] # "PINMODE_RESERVED"
    /\ \/ um[pin] = "PINMODE_UNUSED"
       \/ um[pin] = mode
       \/ {um[pin], mode} \in {{"PINMODE_GPIO_INPUT", "PINMODE_ADC"},
                               {"PINMODE_GPIO_INPUT", "PINMODE_GPIO_OUTPUT"}}

\* C9: allocate(pin, mode) succeeds if and only if the pin is in range, its
\* mode is not Reserved, and its mode is Unused, the requested mode, or
\* compatible with it (GpioIn/Adc, GpioIn/GpioOut); on success the pin takes
\* the requested mode, on failure the table is unchanged.
C9_AllocateDecision ==
    [][last'.op = "allocate_pin" =>
          LET pin == last'.arg[1]
              mode == last'.arg[2]
              ok == SpecifiedAllocate(usage_map_, pin, mode)
          IN /\ last'.ret = ok
             /\ ok => usage_map_' = [usage_map_ EXCEPT ![pin] = mode]
             /\ ~ok => usage_map_' = usage_map_
             /\ (pin \in Pins /\ usage_map_[pin] = "PINMODE_GPIO_OUTPUT")
                   => /\ mode = "PINMODE_PWM" => ~last'.ret
                      /\ mode = "PINMODE_GPIO_INPUT" => last'.ret]_vars

\* A pin held as GpioOut was re-allocated as GpioIn
C9_Witness ==
    /\ last.op = "allocate_pin" /\ last.ret
    /\ last.arg[2] = "PINMODE_GPIO_INPUT"
    /\ last.trace = <<"PINMODE_GPIO_OUTPUT">>
    /\ usage_map_[last.arg[1]] = "PINMODE_GPIO_INPUT"

\* C10: once a pin is Reserved no operation of the pin manager changes its
\* mode; free on it is a no-op and allocate on it fails.
C10_ReservedForever ==
    [][/\ \A p \in Pins :
             usage_map_[p] = "PINMODE_RESERVED" => usage_map_'[p] = "PINMODE_RESERVED"
       /\ (last'.op = "allocate_pin" /\ last'.arg[1] \in Pins
              /\ usage_map_[last'.arg[1]] = "PINMODE_RESERVED") => ~last'.ret
       /\ (last'.op = "free_pin" /\ last'.arg \in Pins
              /\ usage_map_[last'.arg] = "PINMODE_RESERVED") => usage_map_' = usage_map_]_vars

\* C11: in every allocator state, for every pin and mode, is_available
\* returns true exactly when allocate_pin would succeed in that state (and
\* does succeed when it is called next with the same arguments), and
\* is_available leaves the allocation table as it was.
C11_ProbeAgreesWithAllocate ==
    [][/\ last'.op = "is_available" =>
             /\ last'.ret = allocate_ok(usage_map_, last'.arg[1], last'.arg[2])
             /\ usage_map_' = usage_map_
       /\ (last.op = "is_available" /\ last'.op = "allocate_pin" /\ last'.arg = last.arg)
             => last'.ret = last.ret]_vars

\* The probe accepted ADC on a pin held as GPIO input
C11_Witness ==
    /\ last.op = "is_available" /\ last.ret
    /\ last.arg[1] \in Pins
    /\ usage_map_[last.arg[1]] = "PINMODE_GPIO_INPUT"
    /\ last.arg[2] = "PINMODE_ADC"

\* The call add_rule just made stored its rule
Stored(call) == call.op = "add_rule" /\ call.trace # <<>>

HeldBefore(id) == \E i \in Slots : InUse(rules_[i]) /\ rules_[i].id = id

\* C12: a successful add with id 0 assigns and returns a nonzero id that no
\* in-use slot held before the call, and reading that id back returns the
\* rule just added, after any earlier adds, removes, clears and loads.
C12_AutoIdFresh ==
    [][(Stored(last') /\ last'.arg.id = 0) =>
          /\ last'.ret # 0
          /\ ~HeldBefore(last'.ret)
          /\ get_rule(rules_', last'.ret) # nullptr
          /\ rules_'[get_rule(rules_', last'.ret)] = [last'.arg EXCEPT !.id = last'.ret]]_vars

\* C13: add with a nonzero id that an in-use slot already holds overwrites
\* that slot: get(id) afterwards returns the rule just added, count() does
\* not grow, and no other slot changes.
C13_LastWriteWins ==
    [][(Stored(last') /\ last'.arg.id # 0 /\ HeldBefore(last'.arg.id)) =>
          /\ get_rule(rules_', last'.arg.id) # nullptr
          /\ rules_'[get_rule(rules_', last'.arg.id)] = last'.arg
          /\ get_rule_count(rules_') = get_rule_count(rules_)
          /\ rules_' = [rules_ EXCEPT ![find_rule_index(rules_, last'.arg.id)] = last'.arg]]_vars

\* C14: an id the counter assigned, and that no slot holds any more, is not
\* assigned again before the counter has wrapped past 255, whatever adds,
\* removes, clears and reloads come in between.
C14_NoReuseBeforeWrap ==
    [][(Stored(last') /\ last'.arg.id = 0) =>
          ~(last'.ret \in issued /\ ~HeldBefore(last'.ret))]_vars

NoneHolds(id) == ~\E i \in Slots : InUse(rules_[i]) /\ rules_[i].id = id

\* C15: when no in-use rule holds the id (0 included), remove_rule and
\* set_rule_enabled return false, get_rule returns nullptr, and the table,
\* the counter and the persisted set stay as they were.
C15_NotFoundChangesNothing ==
    [][/\ (last'.op = "remove_rule" /\ NoneHolds(last'.arg))
             => (~last'.ret /\ UNCHANGED <<rules_, next_rule_id_, flash>>)
       /\ (last'.op = "set_rule_enabled" /\ NoneHolds(last'.arg[1]))
             => (~last'.ret /\ UNCHANGED <<rules_, next_rule_id_, flash>>)
       /\ (last'.op = "get_rule" /\ NoneHolds(last'.arg))
             => (last'.ret = nullptr /\ UNCHANGED <<rules_, next_rule_id_, flash>>)]_vars

TableFull == \A i \in Slots : InUse(rules_[i])

\* C16: add_rule fails (returns 0) when the rule's kind is not supported on
\* the platform and when the table has no empty slot; in both cases the
\* table, the id counter and the persisted set stay as they were; and the
\* number of in-use rules never exceeds the capacity of the table.
C16_AddFailureChangesNothing ==
    [][/\ (last'.op = "add_rule" /\ (~is_action_supported(last'.arg.action) \/ TableFull))
             => /\ last'.ret = 0 /\ last'.trace = <<>>
                /\ UNCHANGED <<rules_, next_rule_id_, flash>>
       /\ get_rule_count(rules_') <= MAX_ACTION_RULES]_vars

\* A supported rule was refused because the initialized table was full
C16_Witness ==
    /\ last.op = "add_rule" /\ last.ret = 0 /\ last.trace = <<>>
    /\ initialized_ /\ is_action_supported(last.arg.action)
    /\ TableFull /\ get_rule_count(rules_) = MAX_ACTION_RULES

\* C17: remove_rule of an id some in-use slot holds succeeds and clears
\* exactly one slot holding it to the unused sentinel: count() drops by
\* exactly one, every other slot is unchanged, the slot is found empty
\* afterwards, and an add of a supported rule that follows is stored at or
\* below it.
C17_RemoveClearsOneSlot ==
    [][/\ (last'.op = "remove_rule" /\ HeldBefore(last'.arg))
             => /\ last'.ret
                /\ get_rule_count(rules_') = get_rule_count(rules_) - 1
                /\ \E i \in Slots :
                      /\ InUse(rules_[i]) /\ rules_[i].id = last'.arg
                      /\ rules_' = [rules_ EXCEPT ![i] = EmptyRule]
                      /\ find_empty_slot(rules_') >= 0
                      /\ find_empty_slot(rules_') <= i
       /\ (last.op = "remove_rule" /\ last.ret /\ last.arg # 0 /\ last'.op = "add_rule"
              /\ initialized_ /\ is_action_supported(last'.arg.action))
             => /\ Stored(last')
                /\ last'.trace[1] <= last.trace[1]]_vars

\* A removal left slot 0 empty below a slot still in use
C17_Witness ==
    /\ last.op = "remove_rule" /\ last.ret /\ last.arg # 0
    /\ last.trace[1] = 0
    /\ ~InUse(rules_[0]) /\ InUse(rules_[1])
    /\ get_rule_count(rules_) = 1

\* The in-use rules of a table, and the table a restart would load
InUseRules(rs) == {rs[i] : i \in {j \in Slots : InUse(rs[j])}}

Restarted == load_rules_impl(flash, [i \in Slots |-> EmptyRule], TRUE)

\* C18: after every add, remove and enable/disable whose save was written,
\* a restart that loads the persisted set yields a table holding exactly
\* the in-use rules the in-memory table holds, also when removals have
\* left empty slots below in-use ones.
C18_PersistenceRoundTrip ==
    (/\ last.op \in {"add_rule", "remove_rule", "set_rule_enabled"}
     /\ Len(last.trace) = 2
     /\ last.trace[2])
        => InUseRules(Restarted) = InUseRules(rules_)

\* C19: when a rule takes its parameters from the frame and the platform
\* declares no ActionDefinition for its kind, dispatch fails and makes no
\* capability call (so it does not fall back on the rule's fixed
\* parameters), whatever the kind.
C19_NoDefinitionNoCall ==
    (/\ m_out.done
     /\ m_in.rule.param_source = "PARAM_FROM_CAN_DATA"
     /\ get_action_definition(m_in.rule.action) = NoDefinition)
        => (m_out.result.call = <<"none">> /\ ~m_out.result.ok)

\* C20: every kind the platform support check accepts makes a capability
\* call at dispatch (rules with fixed parameters), and a kind the check
\* rejects fails without one.
C20_DispatchTotal ==
    m_out.done =>
        /\ (is_action_supported(m_in.rule.action)
               /\ m_in.rule.param_source = "PARAM_FROM_RULE")
              => m_out.result.call # <<"none">>
        /\ ~is_action_supported(m_in.rule.action)
              => (m_out.result.call = <<"none">> /\ ~m_out.result.ok)

\* The slots a call names: start .. start + length - 1
Named(arg) == {i \in BufferSlots : arg.slot <= i /\ i < arg.slot + arg.length}

\* The highest valid slot plus one, or 0 when no slot is valid
HighestValidPlusOne(used) ==
    IF \A i \in BufferSlots : ~used[i] THEN 0
    ELSE (CHOOSE i \in BufferSlots : used[i] /\ \A j \in BufferSlots : used[j] => j <= i) + 1

\* C25: after any sequence of write, clear and clear_range the used length
\* is the index of the highest valid slot plus one, or 0 when none is valid.
C25_UsedLength == get_used_length(slot_used_) = HighestValidPlusOne(slot_used_)

\* C25 witness: a write and a clear_range have left valid slots with a hole
\* below them and an invalid slot above
C25_Witness ==
    /\ last.op = "clear_range" /\ last.ret
    /\ ~slot_used_[0] /\ slot_used_[3] /\ ~slot_used_[5] /\ ~slot_used_[BUFFER_SIZE - 1]
    /\ slot_used_[6]

\* C26: a write of n bytes at slot s succeeds exactly when s < 8, n > 0 and
\* s + n <= 8, and then makes exactly the slots s .. s+n-1 valid, holding the
\* bytes given (3 bytes at slot 2 into an empty buffer give used length 5);
\* clear_range(s, n) succeeds under the same condition and makes exactly
\* those slots invalid; a rejected write or clear_range changes nothing.
C26_WriteAndClearRange ==
    [][/\ (last'.op = "write" /\ ~last'.arg.data.null) =>
            LET s == last'.arg.slot
                n == last'.arg.length
            IN  /\ last'.ret = (s < 8 /\ n > 0 /\ s + n <= 8)
                /\ last'.ret =>
                      /\ \A i \in BufferSlots :
                            slot_used_'[i] = (i \in Named(last'.arg) \/ slot_used_[i])
                      /\ \A i \in Named(last'.arg) :
                            buffer_'[i] = last'.arg.data.bytes[i - s + 1]
                      /\ \A i \in BufferSlots \ Named(last'.arg) : buffer_'[i] = buffer_[i]
                /\ (s = 2 /\ n = 3 /\ get_used_length(slot_used_) = 0)
                      => get_used_length(slot_used_') = 5
       /\ last'.op = "clear_range" =>
            LET s == last'.arg.slot
                n == last'.arg.length
            IN  /\ last'.ret = (s < 8 /\ n > 0 /\ s + n <= 8)
                /\ last'.ret =>
                      /\ \A i \in BufferSlots :
                            slot_used_'[i] = (i \notin Named(last'.arg) /\ slot_used_[i])
                      /\ \A i \in BufferSlots \ Named(last'.arg) : buffer_'[i] = buffer_[i]
       /\ (last'.op \in {"write", "clear_range"} /\ ~last'.ret) => UNCHANGED bufferVars
      ]_vars

\* C26 witness: clear_range(2, 3) has just made slots 2..4 invalid and left
\* the valid slots on both sides of them as they were
C26_Witness ==
    /\ last.op = "clear_range" /\ last.ret
    /\ last.arg.slot = 2 /\ last.arg.length = 3
    /\ slot_used_[1] /\ ~slot_used_[2] /\ ~slot_used_[3] /\ ~slot_used_[4] /\ slot_used_[5]
    /\ buffer_[1] = 171 /\ buffer_[5] = 171

BufferedReads ==
    {"execute_i2c_read_buffer_action", "execute_gpio_read_buffer_action",
     "execute_adc_read_buffer_action"}

\* The write a buffered read asks for would go past the last slot
Overflows(arg) == arg.slot + arg.length > 8

AllInvalid(b) == \A i \in BufferSlots : ~b.slot_used_[i] /\ b.buffer_[i] = 0

\* C21: a buffered read (I2C, GPIO or ADC read-to-buffer) whose write would
\* overflow the 8-byte buffer is rejected before any hardware I/O and leaves
\* the buffer's bytes and valid flags as they were.
C21_OverflowRejectedFirst ==
    [][(last'.op \in BufferedReads /\ Overflows(last'.arg))
          => (~last'.ret /\ last'.trace.io = <<>> /\ UNCHANGED bufferVars)]_vars

\* C21 witness: an I2C read of 2 bytes at slot 7 has been rejected while the
\* buffer held data in its last slots
C21_Witness ==
    /\ last.op = "execute_i2c_read_buffer_action"
    /\ last.arg.slot = 7 /\ last.arg.length = 2 /\ ~last.ret
    /\ slot_used_[6] /\ slot_used_[7]

\* C22: buffer-send hands the bus exactly min(requested length, valid
\* length) bytes, taken from the start of the buffer, where the valid length
\* is the used length when the call is made; it does so whenever the request
\* is a legal frame length and the bus is ready.
C22_SendsValidPrefix ==
    [][last'.op = "execute_buffer_send_action" =>
          LET valid == HighestValidPlusOne(slot_used_)
              n == IF last'.arg.length < valid THEN last'.arg.length ELSE valid
          IN  /\ (last'.arg.length <= 8 /\ last'.arg.can # "not_ready")
                    => last'.trace.frame # <<>>
              /\ last'.trace.frame # <<>> =>
                    /\ last'.trace.frame[1].length = n
                    /\ last'.trace.frame[1].data = [i \in 1 .. n |-> buffer_[i - 1]]
      ]_vars

\* C22 witness: 5 bytes were asked for while 3 were valid, and the 3 bytes
\* at the start of the buffer went out
C22_Witness ==
    /\ last.op = "execute_buffer_send_action" /\ last.arg.length = 5
    /\ last.trace.frame # <<>>
    /\ last.trace.frame[1].data = <<160, 161, 162>>

\* C23 as stated: buffer-send clears the buffer afterwards exactly when
\* clear-after was asked for and otherwise leaves bytes and valid flags as
\* they were, for every requested length and whether or not the send succeeds.
C23_Original ==
    [][last'.op = "execute_buffer_send_action" =>
          IF last'.arg.clear_after
          THEN AllInvalid([buffer_ |-> buffer_', slot_used_ |-> slot_used_'])
          ELSE UNCHANGED bufferVars]_vars

\* C23 amended: for a requested length of at most 8, buffer-send clears the
\* buffer exactly when clear-after was asked for, whether or not the send
\* succeeds; a requested length above 8 is rejected and the buffer is left
\* as it was even when clear-after was asked for.
C23_Amended ==
    [][last'.op = "execute_buffer_send_action" =>
          IF last'.arg.clear_after /\ last'.arg.length <= 8
          THEN AllInvalid([buffer_ |-> buffer_', slot_used_ |-> slot_used_'])
          ELSE UNCHANGED bufferVars]_vars

\* C23 witness: a send of 3 valid bytes with clear-after failed on the bus
\* and the buffer is empty afterwards
C23_Witness ==
    /\ last.op = "execute_buffer_send_action"
    /\ last.arg.clear_after /\ last.arg.can = "send_fails" /\ ~last.ret
    /\ last.trace.frame # <<>> /\ last.trace.frame[1].length = 3
    /\ AllInvalid(ActionBuffer)

\* C24: the number of bytes buffer-send sent is reported back to the caller:
\* a send that was cut short of the request does not give the caller the
\* result a send of the full request gives (TRUE).
C24_ShortSendObservable ==
    (/\ last.op = "execute_buffer_send_action"
     /\ last.arg.can = "sent"
     /\ last.trace.frame # <<>>
     /\ last.trace.frame[1].length < last.arg.length)
        => last.ret # TRUE

\* A uint32_t limit read as a signed number, and as an unsigned one below 2^31
SignedLimit(w) == IF w[1] >= 32768 THEN (w[1] - U16) * U16 + w[2] ELSE w[1] * U16 + w[2]

\* v brought into lo .. hi
Clamped(v, lo, hi) == IF v < lo THEN lo ELSE IF v > hi THEN hi ELSE v

\* a < b for two uint32_t
LessU32(a, b) == a[1] < b[1] \/ (a[1] = b[1] /\ a[2] < b[2])

\* The byte index leaves no room for a value of the type's width in 8 bytes
IndexOutOfBounds(type, idx) ==
    IF type \in {"PARAM_UINT8", "PARAM_INT8", "PARAM_BOOL"} THEN idx > 7
    ELSE IF type \in {"PARAM_UINT16", "PARAM_INT16"} THEN idx > 6
    ELSE idx > 4

\* r is the zero value of the type
IsZeroOf(type, r) ==
    IF type = "PARAM_BOOL" THEN r = FALSE
    ELSE IF type \in {"PARAM_UINT32", "PARAM_FLOAT"} THEN r = <<0, 0>>
    ELSE r = 0

\* C27: every extractor returns its type's zero value when the byte index is
\* out of bounds for the type's width (above 7 for 8-bit values and bool,
\* above 6 for 16-bit values, above 4 for 32-bit values), whatever the
\* payload and the limits; extract_uint16 with index 7 returns 0.
C27_OutOfBoundsGivesZero ==
    (m_out.done /\ IndexOutOfBounds(m_in.type, m_in.mapping.data_byte_index))
        => IsZeroOf(m_in.type, m_out.result)

\* C27 witness: extract_uint16 at index 7 of a payload without a zero byte,
\* with limits 256..1000, has returned 0
C27_Witness ==
    /\ m_out.done /\ m_in.type = "PARAM_UINT16"
    /\ m_in.mapping.data_byte_index = 7
    /\ m_in.can_data[7] = 240 /\ m_in.mapping.min_value = <<0, 256>>
    /\ m_out.result = 0

\* C28: for an 8-bit mapping (u8 and i8) with the byte index in bounds, when
\* bit_length < 8 the value is the payload byte shifted right by bit_offset
\* and masked to (1 << bit_length) - 1 before widening; the value is then
\* clamped to [min_value, max_value] (as signed numbers for i8), so the
\* result lies within the limits.
C28_EightBitField ==
    (m_out.done /\ m_in.type \in {"PARAM_UINT8", "PARAM_INT8"}
                /\ m_in.mapping.data_byte_index <= 7) =>
        LET byte == m_in.can_data[m_in.mapping.data_byte_index]
            value == IF m_in.mapping.bit_length < 8
                     THEN BitAnd(byte \div Pow2(m_in.mapping.bit_offset),
                                 Pow2(m_in.mapping.bit_length) - 1)
                     ELSE IF m_in.type = "PARAM_INT8" /\ byte >= 128 THEN byte - 256
                     ELSE byte
            lo == SignedLimit(m_in.mapping.min_value)
            hi == SignedLimit(m_in.mapping.max_value)
        IN  /\ m_out.result = Clamped(value, lo, hi)
            /\ lo <= m_out.result /\ m_out.result <= hi

\* C29: for a u16, i16 or u32 mapping with the byte index in bounds the value
\* is assembled little-endian from the bytes starting at data_byte_index
\* (2 for the 16-bit types, 4 for u32) and then clamped to
\* [min_value, max_value].
C29_LittleEndianClamped ==
    (m_out.done /\ m_in.type \in {"PARAM_UINT16", "PARAM_INT16", "PARAM_UINT32"}
                /\ ~IndexOutOfBounds(m_in.type, m_in.mapping.data_byte_index)) =>
        LET i == m_in.mapping.data_byte_index
            b == m_in.can_data
            lo == m_in.mapping.min_value
            hi == m_in.mapping.max_value
        IN  IF m_in.type = "PARAM_UINT32"
            THEN LET v == <<b[i + 2] + 256 * b[i + 3], b[i] + 256 * b[i + 1]>>
                 IN m_out.result = IF LessU32(v, lo) THEN lo
                                   ELSE IF LessU32(hi, v) THEN hi ELSE v
            ELSE LET u == b[i] + 256 * b[i + 1]
                     v == IF m_in.type = "PARAM_INT16" /\ u >= 32768 THEN u - 65536 ELSE u
                 IN m_out.result = Clamped(v, SignedLimit(lo), SignedLimit(hi))

\* C29 witness: a u32 with its top bit set was assembled from bytes 4..7
\* (9A BC DE F0 gives F0DEBC9A) and lay within the limits
C29_Witness ==
    /\ m_out.done /\ m_in.type = "PARAM_UINT32"
    /\ m_in.mapping.data_byte_index = 4
    /\ m_in.can_data[4] = 154 /\ m_in.can_data[7] = 240
    /\ m_out.result = <<61662, 48282>>

\* C30: the text add-rule entry point rejects, without changing the rule
\* table or the id counter, every record with fewer than 8 colon-separated
\* tokens and every record whose param_source token (the 8th) is anything
\* other than fixed or candata.
C30_RejectsMalformedCommands ==
    [][(/\ last'.op = "parse_and_add_rule"
        /\ \/ Len(last'.arg) < 8
           \/ last'.arg[8] \notin {"fixed", "candata"})
          => (last'.ret = 0 /\ UNCHANGED <<rules_, next_rule_id_>>)]_vars

\* ---- C31
\* C31: the receive callback hands frames over through the receive queue
\* only, and the main loop evaluates every frame the callback enqueued
\* exactly once and in arrival order: the frames evaluated so far are the
\* first frames enqueued, and once the queue is empty and no frame is held
\* by the loop, every enqueued frame has been evaluated.
C31_EvaluatedOnceInOrder ==
    /\ Len(evaluated) <= Len(enqueued)
    /\ evaluated = SubSeq(enqueued, 1, Len(evaluated))
    /\ (rx_queue_ = <<>> /\ loop_pc \notin {"pop", "pop_torn", "evaluate"})
          => evaluated = enqueued

\* ---- C32
\* The bytes a hex,csv field of the text encoding stands for (fields in use)
EncodedBytes(field) ==
    CASE field = "0D" -> <<13>>
      [] field = "FF" -> <<255>>
      [] field = "13" -> <<19>>
      [] OTHER -> <<>>

\* C32: a rule added through the text encoding stores every encoded field:
\* its data pattern and data mask are the bytes of the record's data and
\* data_mask fields, and for a bus-send kind the payload length is the
\* number of bytes the record encodes.
C32_StoresEncodedFields ==
    (last.op = "parse_and_add_rule" /\ last.ret # 0)
      => LET rule == rules_[last.trace[1]]
             data == EncodedBytes(last.arg[4])
             mask == EncodedBytes(last.arg[5])
         IN /\ \A i \in 1 .. Len(data) : rule.data[i - 1] = data[i]
            /\ \A i \in 1 .. Len(mask) : rule.data_mask[i - 1] = mask[i]
            /\ (rule.action = "ACTION_CAN_SEND" /\ Len(last.arg) > 9)
                  => rule.params.length = Len(EncodedBytes(last.arg[10]))

\* ---- C33
\* C33: on the ESP32 backend, saving and then loading restores every in-use
\* rule, whatever the rules' ids and slots: each rule of the saved table is
\* in the loaded table.
C33_SaveLoadRestores ==
    m_out.done =>
        \A i \in Slots : m_in.rules[i].id # 0 =>
            \E j \in Slots : m_out.result[j] = m_in.rules[i]

\* ---- C34
\* Slots whose dispatch a scheduler tick attempted and the bus refused
FailedSlots(call) == {call.trace[k].slot : k \in {j \in 1 .. Len(call.trace) : ~call.trace[j].ok}}

\* C34: when the bus send fails while the scheduler dispatches a due
\* periodic rule, the rule's last_execute_ms and execute_count are
\* unchanged, the count the tick returns leaves the rule out, the rule is
\* still due, and a tick that follows at once attempts it again.
C34_FailedSendRetried ==
    [][last'.op = "update_periodic" =>
          /\ \A i \in FailedSlots(last') :
                /\ rules_'[i].last_execute_ms = rules_[i].last_execute_ms
                /\ rules_'[i].execute_count = rules_[i].execute_count
                /\ periodic_due(rules_'[i], now_ms')
          /\ last'.ret = Len(last'.trace) - Cardinality(FailedSlots(last'))
          /\ last.op = "update_periodic" =>
                \A i \in FailedSlots(last) : \E k \in 1 .. Len(last'.trace) : last'.trace[k].slot = i]_vars

\* A tick whose dispatch of a rule that was sent once before is refused by the bus
C34_Witness ==
    /\ last.op = "update_periodic"
    /\ last.ret = 0
    /\ FailedSlots(last) # {}
    /\ \E i \in FailedSlots(last) : rules_[i].execute_count = W(0, 1)

\* ---- C35
\* C35: the edit command is all-or-nothing: after an edit of an existing
\* rule the table holds either the updated rule under the same id or the
\* original rule unchanged, also when the replacement record is rejected.
C35_EditAllOrNothing ==
    [][(/\ last'.op = "edit"
        /\ atoi(last'.arg[1]) # 0
        /\ find_rule_index(rules_, atoi(last'.arg[1])) >= 0)
          => \/ /\ last'.ret = atoi(last'.arg[1])
                /\ find_rule_index(rules_', atoi(last'.arg[1])) >= 0
             \/ rules_' = rules_]_vars

\* ---- C36
\* C36: after the clear command has emptied the rule table, the persisted
\* rule set is empty as well: a load after a restart brings no rule back.
C36_ClearEmptiesPersisted ==
    last.op = "clear_all_rules" => load_count(flash, TRUE) = 0

\* ---- C37
\* C37: with no free in between, a pin allocated as GPIO output never ends
\* up allocated as ADC, whatever allocate calls are made: in particular two
\* allocate calls in a row on a pin held as GPIO output do not leave it
\* allocated as ADC.
C37_OutputNeverBecomesAdc ==
    [][~(/\ last.op = "allocate_pin"
         /\ last.ret = TRUE
         /\ last.trace = <<"PINMODE_GPIO_OUTPUT">>
         /\ last'.op = "allocate_pin"
         /\ last'.arg[1] = last.arg[1]
         /\ last'.ret = TRUE
         /\ usage_map_'[last.arg[1]] = "PINMODE_ADC")]_vars

\* ---- C38
\* C38: an action dispatch that fails leaves the pin allocation table as it
\* was: a PWM-configure or buffered GPIO read that returns false has not
\* left its pin allocated.
C38_FailedDispatchKeepsPins ==
    [][(/\ last'.op \in {"execute_pwm_configure_action", "execute_gpio_read_buffer_action"}
        /\ last'.ret = FALSE)
          => usage_map_' = usage_map_]_vars

\* ---- C39
\* C39: when a rule's parameters are taken from the frame that triggered
\* it, the dispatcher reads only payload bytes the frame carries: no index
\* at or past the frame's length, and none past byte 7.
C39_ReadsWithinFrame ==
    (m_out.done /\ matches_rule(m_in.message, m_in.rule))
        => \A i \in payload_reads(m_in.rule) : i < m_in.message.length /\ i <= 7

\* ---- C40
\* C40: while the main loop keeps running and bus sends succeed, every
\* in-use, enabled periodic rule with a nonzero interval whose interval has
\* elapsed is dispatched by the scheduler: it is not starved by other rules
\* or by the draining of inbound frames.
C40_DuePeriodicDispatched ==
    \A i \in Slots :
        periodic_due(rules_[i], now_ms)
            ~> (/\ last.op = "update_periodic"
                /\ \E k \in 1 .. Len(last.trace) : last.trace[k].slot = i /\ last.trace[k].ok)

====
